---------------------------- MODULE Spec2Model ----------------------------
(***************************************************************************)
(* A model of the ATLAS evaluation scripts                                 *)
(* (src/evaluation/scripts/atlas_data_analysis.py).                        *)
(*                                                                         *)
(* The analyzers are classes without mutable fields: every method is a     *)
(* function of its arguments.  A behaviour of the model is one call of one *)
(* method: `op` names the method, `arg` is the argument it was given and   *)
(* `ret` is what the call produced, either a value or a raised exception.  *)
(* The evaluation runs of the last section execute the scorers of two      *)
(* reports step by step, on analyzer instances that they may share.        *)
(*                                                                         *)
(* ATLASLiveTester (src/evaluation/scripts/atlas_live_testing.py) keeps    *)
(* the results of its tests in a field: `driver` and `test_results` are    *)
(* its fields, `browser` is the browser behind the driver and `frame` is   *)
(* the position of test_offline_functionality_simulation while it runs.    *)
(*                                                                         *)
(* Numbers.  Python floats are modelled by exact fractions                 *)
(* [kind, num, den]; kind "nan" is the float not-a-number and kind "zde"   *)
(* marks an expression whose evaluation raised ZeroDivisionError.          *)
(***************************************************************************)
EXTENDS Integers, Sequences, FiniteSets, TLC

VARIABLES op, arg, ret, driver, test_results, browser, frame, analyzers, runs

\* the fields of an ATLASLiveTester, the browser its driver controls and the
\* position of the test method that is running
tester_vars == <<driver, test_results, browser, frame>>
\* the analyzer instances and the evaluation runs that use them
run_vars == <<analyzers, runs>>
vars == <<op, arg, ret, tester_vars, run_vars>>

-----------------------------------------------------------------------------
(* Bounds of the model                                                     *)

\* longest results_df given to calculate_clinical_metrics
MaxRows == 3
\* longest results_df given to analyze_who_alignment
MaxCases == 4
\* most survey responses in expert_responses_df
MaxExperts == 2
\* most comments in comments_data
MaxComments == 4
\* the usability means given to calculate_sus_grade are the multiples of
\* 1/SusScale from 0 to MaxSus
SusScale == 10
MaxSus == 100
\* the overall scores given to make_readiness_decision are the multiples of
\* 1/ScoreScale from 0 to MaxComplexity and from 0 to MaxReadiness
ScoreScale == 10
\* the grid of the scores given to the label functions: steps of 1/LevelScale
LevelScale == 100
\* generate_implementation_recommendations is given analyses of the first
\* MaxDomains domains and the first MaxDimensions dimensions
MaxDomains == 3
MaxDimensions == 2
MaxComplexity == 6
MaxReadiness == 10

-----------------------------------------------------------------------------
(* Python values                                                           *)

\* a finite number num/den, den > 0
Frac(n, d) == [kind |-> "num", num |-> n, den |-> d]
Int2F(n) == Frac(n, 1)
\* float('nan')
NaN == [kind |-> "nan", num |-> 0, den |-> 1]
\* the value of an expression that raised ZeroDivisionError
ZDE == [kind |-> "zde", num |-> 0, den |-> 1]

IsNum(a) == a.kind = "num"
Raised(a) == a.kind = "zde"

\* a + b
FAdd(a, b) ==
    IF Raised(a) \/ Raised(b) THEN ZDE
    ELSE IF ~IsNum(a) \/ ~IsNum(b) THEN NaN
    ELSE Frac(a.num * b.den + b.num * a.den, a.den * b.den)

\* a - b
FSub(a, b) ==
    IF Raised(a) \/ Raised(b) THEN ZDE
    ELSE IF ~IsNum(a) \/ ~IsNum(b) THEN NaN
    ELSE Frac(a.num * b.den - b.num * a.den, a.den * b.den)

\* a * b
FMul(a, b) ==
    IF Raised(a) \/ Raised(b) THEN ZDE
    ELSE IF ~IsNum(a) \/ ~IsNum(b) THEN NaN
    ELSE Frac(a.num * b.num, a.den * b.den)

\* a / b of Python numbers: a zero divisor raises ZeroDivisionError
FDiv(a, b) ==
    IF Raised(a) \/ Raised(b) THEN ZDE
    ELSE IF IsNum(b) /\ b.num = 0 THEN ZDE
    ELSE IF ~IsNum(a) \/ ~IsNum(b) THEN NaN
    ELSE IF b.num > 0 THEN Frac(a.num * b.den, a.den * b.num)
    ELSE Frac(-(a.num * b.den), -(a.den * b.num))

\* a <= b, a >= b, a > b, a == b: every comparison with nan is False
FLe(a, b) == IsNum(a) /\ IsNum(b) /\ a.num * b.den <= b.num * a.den
FGe(a, b) == IsNum(a) /\ IsNum(b) /\ a.num * b.den >= b.num * a.den
FGt(a, b) == IsNum(a) /\ IsNum(b) /\ a.num * b.den > b.num * a.den
FEq(a, b) == IsNum(a) /\ IsNum(b) /\ a.num * b.den = b.num * a.den

\* the outcome of a call: a returned value or a raised exception
Return(v) == [raised |-> "", value |-> v]
Raise(e) == [raised |-> e, value |-> <<>>]
Returned(r) == r.raised = ""

\* len(df[df[column] == value]): the number of rows with that value
CountRows(df, column, value) ==
    Cardinality({i \in 1..Len(df) : df[i][column] = value})

\* len(df[(df[c1] == v1) & (df[c2] == v2)])
CountRows2(df, c1, v1, c2, v2) ==
    Cardinality({i \in 1..Len(df) : df[i][c1] = v1 /\ df[i][c2] = v2})

\* the elements of a list
Range(s) == {s[i] : i \in DOMAIN s}

\* all sequences over S of length at most n
SeqsUpTo(S, n) == UNION {[1..k -> S] : k \in 0..n}

-----------------------------------------------------------------------------
(* ATLASPerformanceAnalyzer                                                *)

\* self.app_url
app_url == "https://atlas-clinical-git-main-lambdabypis-projects.vercel.app/"

\* the keys of targets, in the order of the dict
target_names ==
    <<"pwa_score", "performance_score", "first_contentful_paint",
      "time_to_interactive", "offline_success_rate">>

\* targets[metric]
targets(metric) ==
    CASE metric = "pwa_score" -> Int2F(90)
      [] metric = "performance_score" -> Int2F(80)
      [] metric = "first_contentful_paint" -> Frac(20, 10)
      [] metric = "time_to_interactive" -> Frac(30, 10)
      [] metric = "offline_success_rate" -> Frac(950, 10)

\* the metrics compared with >=; every other metric is compared with <=
higher_is_better == {"pwa_score", "performance_score", "offline_success_rate"}

\* the meets_target expression with strict comparisons
MeetsTargetStrict(metric, actual, target) ==
    IF metric \in higher_is_better THEN FGt(actual, target)
    ELSE ~FGe(actual, target) /\ IsNum(actual)

\* the meets_target expression
MeetsTarget(metric, actual, target) ==
    IF metric \in higher_is_better THEN FGe(actual, target) ELSE FLe(actual, target)

\* the variance_percent expression relative to the actual value
VariancePercentOfActual(actual, target) ==
    FMul(FDiv(FSub(actual, target), actual), Int2F(100))

\* the variance_percent expression
VariancePercent(actual, target) ==
    FMul(FDiv(FSub(actual, target), target), Int2F(100))

\* analyze_performance_metrics never divides by zero: the targets are not 0
analyze_performance_metrics(metrics_data) ==
    [metric \in Range(target_names) \cap DOMAIN metrics_data |->
        [actual |-> metrics_data[metric],
         target |-> targets(metric),
         meets_target |-> MeetsTarget(metric, metrics_data[metric], targets(metric)),
         variance_percent |-> VariancePercent(metrics_data[metric], targets(metric))]]

\* the overall_score expression
OverallScore(targets_met, total_metrics) ==
    FMul(FDiv(Int2F(targets_met), Int2F(total_metrics)), Int2F(100))

\* The report without its timestamp, which is the wall clock's.
generate_performance_report(metrics_data) ==
    LET analysis == analyze_performance_metrics(metrics_data)
        met == Cardinality({m \in DOMAIN analysis : analysis[m].meets_target})
        summary == [total_metrics |-> Cardinality(DOMAIN analysis),
                    targets_met |-> met,
                    overall_score |-> OverallScore(met, Cardinality(DOMAIN analysis))]
    IN  IF Raised(summary.overall_score)
        THEN Raise("ZeroDivisionError")
        ELSE Return([app_url |-> app_url,
                     metrics_analysis |-> analysis,
                     summary |-> summary])

\* The metrics_data given to the analyzer: each target metric is absent or has
\* a value below, at or above its target, and the key that
\* collect_lighthouse_data adds and no target names may be present.
Absent == [kind |-> "absent", num |-> 0, den |-> 1]
ActualValues(metric) ==
    CASE metric = "pwa_score" -> {Int2F(85), Int2F(90), Int2F(100)}
      [] metric = "performance_score" -> {Int2F(78), Int2F(80), Int2F(92)}
      [] metric = "first_contentful_paint" -> {Frac(18, 10), Frac(20, 10), Frac(31, 10)}
      [] metric = "time_to_interactive" -> {Frac(24, 10), Frac(30, 10), Frac(52, 10)}
      [] metric = "offline_success_rate" -> {Int2F(92), Int2F(95), Int2F(100)}
      [] metric = "cumulative_layout_shift" -> {Frac(1, 10)}
MetricsData(choice) ==
    [metric \in {m \in DOMAIN choice : choice[m] # Absent} |-> choice[metric]]
Options(metric) == ActualValues(metric) \cup {Absent}
MetricsInputs ==
    {MetricsData([pwa_score |-> a, performance_score |-> b,
                  first_contentful_paint |-> c, time_to_interactive |-> d,
                  offline_success_rate |-> e, cumulative_layout_shift |-> f]) :
        a \in Options("pwa_score"), b \in Options("performance_score"),
        c \in Options("first_contentful_paint"),
        d \in Options("time_to_interactive"),
        e \in Options("offline_success_rate"),
        f \in Options("cumulative_layout_shift")}

-----------------------------------------------------------------------------
(* ClinicalScenarioAnalyzer                                                *)

\* self.scenario_categories
scenario_categories ==
    <<"WHO_IMCI", "Maternal_Health", "General_Medicine", "Emergency">>

\* The values a label column holds: the booleans, and None on a scenario
\* that is still pending (generate_synthetic_clinical_test_data).
Labels == {"True", "False", "None"}

\* The columns of results_df that calculate_clinical_metrics reads.
MetricsRows == [who_aligned : Labels, expected_alignment : Labels]

\* the four cells of the confusion matrix
CellTP(results_df) ==
    CountRows2(results_df, "who_aligned", "True", "expected_alignment", "True")
CellFP(results_df) ==
    CountRows2(results_df, "who_aligned", "True", "expected_alignment", "False")
CellTN(results_df) ==
    CountRows2(results_df, "who_aligned", "False", "expected_alignment", "False")
CellFN(results_df) ==
    CountRows2(results_df, "who_aligned", "False", "expected_alignment", "True")

\* F1Expr with the guard of precision (tp + fp > 0) in place of tp > 0
F1ExprPrecisionGuard(tp, fp, fn) ==
    IF tp + fp > 0
    THEN FDiv(FMul(Int2F(2), FMul(FDiv(Int2F(tp), Int2F(tp + fp)),
                                  FDiv(Int2F(tp), Int2F(tp + fn)))),
              FAdd(FDiv(Int2F(tp), Int2F(tp + fp)),
                   FDiv(Int2F(tp), Int2F(tp + fn))))
    ELSE Int2F(0)

\* the f1_score expression
F1Expr(tp, fp, fn) ==
    IF tp > 0
    THEN FDiv(FMul(Int2F(2), FMul(FDiv(Int2F(tp), Int2F(tp + fp)),
                                  FDiv(Int2F(tp), Int2F(tp + fn)))),
              FAdd(FDiv(Int2F(tp), Int2F(tp + fp)),
                   FDiv(Int2F(tp), Int2F(tp + fn))))
    ELSE Int2F(0)

\* PrecisionExpr without its zero-denominator guard
PrecisionExprUnguarded(tp, fp) == FDiv(Int2F(tp), Int2F(tp + fp))

\* the precision expression
PrecisionExpr(tp, fp) ==
    IF tp + fp > 0 THEN FDiv(Int2F(tp), Int2F(tp + fp)) ELSE Int2F(0)

\* AccuracyExpr guarded like the other ratios
AccuracyExprGuarded(tp, fp, tn, fn) ==
    IF tp + fp + tn + fn > 0
    THEN FDiv(Int2F(tp + tn), Int2F(tp + fp + tn + fn))
    ELSE Int2F(0)

\* the accuracy expression
AccuracyExpr(tp, fp, tn, fn) == FDiv(Int2F(tp + tn), Int2F(tp + fp + tn + fn))

calculate_clinical_metrics(results_df) ==
    LET tp == CellTP(results_df)
        fp == CellFP(results_df)
        tn == CellTN(results_df)
        fn == CellFN(results_df)
        metrics == [
            accuracy |-> AccuracyExpr(tp, fp, tn, fn),
            precision |-> PrecisionExpr(tp, fp),
            recall |-> IF tp + fn > 0 THEN FDiv(Int2F(tp), Int2F(tp + fn)) ELSE Int2F(0),
            specificity |-> IF tn + fp > 0 THEN FDiv(Int2F(tn), Int2F(tn + fp)) ELSE Int2F(0),
            f1_score |-> F1Expr(tp, fp, fn)]
    IN  IF \E k \in DOMAIN metrics : Raised(metrics[k])
        THEN Raise("ZeroDivisionError")
        ELSE Return(metrics)

\* The columns of results_df that analyze_who_alignment reads; the three
\* label columns are drawn together from FlagCombos.
FlagCombos ==
    {<<"True", "True", "False">>, <<"False", "True", "True">>,
     <<"None", "False", "True">>}
AlignmentRows ==
    {[category |-> c, who_aligned |-> f[1],
      appropriate_recommendation |-> f[2], resource_aware |-> f[3]] :
        c \in Range(scenario_categories), f \in FlagCombos}

\* results_df[results_df['category'] == category]
SelectCategory(results_df, category) ==
    LET keep == {i \in 1..Len(results_df) : results_df[i].category = category}
        F[k \in 0..Len(results_df)] ==
            IF k = 0 THEN <<>>
            ELSE IF k \in keep THEN Append(F[k - 1], results_df[k])
            ELSE F[k - 1]
    IN  F[Len(results_df)]

\* len(category_data[category_data[column] == True]) / len(category_data) * 100
PercentTrue(count, total) == FMul(FDiv(Int2F(count), Int2F(total)), Int2F(100))

\* the record analyze_who_alignment builds for one category
AlignmentEntry(category_data) ==
    LET who == CountRows(category_data, "who_aligned", "True")
        app == CountRows(category_data, "appropriate_recommendation", "True")
        res == CountRows(category_data, "resource_aware", "True")
    IN  [total_cases |-> Len(category_data),
         who_aligned |-> who,
         alignment_percentage |-> PercentTrue(who, Len(category_data)),
         appropriate_recommendations |-> app,
         appropriateness_percentage |-> PercentTrue(app, Len(category_data)),
         resource_aware |-> res,
         resource_awareness_percentage |-> PercentTrue(res, Len(category_data))]

analyze_who_alignment(results_df) ==
    LET alignment_analysis ==
            [category \in Range(scenario_categories) |->
                AlignmentEntry(SelectCategory(results_df, category))]
    IN  IF \E c \in DOMAIN alignment_analysis :
               \/ Raised(alignment_analysis[c].alignment_percentage)
               \/ Raised(alignment_analysis[c].appropriateness_percentage)
               \/ Raised(alignment_analysis[c].resource_awareness_percentage)
        THEN Raise("ZeroDivisionError")
        ELSE Return(alignment_analysis)

-----------------------------------------------------------------------------
(* ExpertEvaluationAnalyzer                                                *)

\* A DataFrame of survey responses: the set of its columns and its rows.  A
\* row holds "NA" (a string column) or NaN (a number column) where the
\* response has no value, and in every column the frame does not have.
SusColumn == "overall_assessment_system_usability_scale"
ExpertColumns ==
    {"expert_type", "years_experience", "resource_limited_experience", SusColumn}

\* expert_responses_df.empty: no rows or no columns
IsEmptyFrame(df) == Len(df.rows) = 0 \/ df.columns = {}

\* the sum of a list of numbers
RECURSIVE SumF(_)
SumF(xs) == IF xs = <<>> THEN Int2F(0) ELSE FAdd(Head(xs), SumF(Tail(xs)))

\* the values of a column without the missing ones (pandas skips NaN)
RECURSIVE DropNaN(_)
DropNaN(xs) ==
    IF xs = <<>> THEN <<>>
    ELSE IF IsNum(Head(xs)) THEN <<Head(xs)>> \o DropNaN(Tail(xs))
    ELSE DropNaN(Tail(xs))

\* Series.mean(): the mean of the values present, nan when there is none
SeriesMean(xs) ==
    IF DropNaN(xs) = <<>> THEN NaN
    ELSE FDiv(SumF(DropNaN(xs)), Int2F(Len(DropNaN(xs))))

\* the square root of a number, kept symbolic unless the number is 0
FSqrt(x) ==
    IF ~IsNum(x) \/ x.num = 0 THEN x
    ELSE [kind |-> "sqrt", num |-> x.num, den |-> x.den]

\* Series.std(): the sample standard deviation (ddof = 1) of the values
\* present, nan when there are fewer than two
SeriesStd(xs) ==
    LET ys == DropNaN(xs)
        n == Len(ys)
        mean == SeriesMean(xs)
        sq == [i \in 1..n |-> FMul(FSub(ys[i], mean), FSub(ys[i], mean))]
    IN  IF n < 2 THEN NaN ELSE FSqrt(FDiv(SumF(sq), Int2F(n - 1)))

\* df.get(column, pd.Series()): the column as a list, empty when absent
Column(df, column) ==
    IF column \in df.columns
    THEN [i \in 1..Len(df.rows) |-> df.rows[i][column]]
    ELSE <<>>

\* value_counts that counts the missing value like any other
ValueCountsWithMissing(xs) ==
    [v \in Range(xs) |-> Cardinality({i \in DOMAIN xs : xs[i] = v})]

\* Series.value_counts().to_dict(): the count of every value present
ValueCounts(xs) ==
    [v \in Range(xs) \ {"NA"} |-> Cardinality({i \in DOMAIN xs : xs[i] = v})]

\* calculate_sus_grade with the first threshold exclusive
calculate_sus_grade_exclusive(sus_score) ==
    IF FGt(sus_score, Int2F(85)) THEN "A"
    ELSE IF FGe(sus_score, Int2F(80)) THEN "B"
    ELSE IF FGe(sus_score, Int2F(70)) THEN "C"
    ELSE IF FGe(sus_score, Int2F(50)) THEN "D"
    ELSE "F"

calculate_sus_grade(sus_score) ==
    IF FGe(sus_score, Int2F(85)) THEN "A"
    ELSE IF FGe(sus_score, Int2F(80)) THEN "B"
    ELSE IF FGe(sus_score, Int2F(70)) THEN "C"
    ELSE IF FGe(sus_score, Int2F(50)) THEN "D"
    ELSE "F"

\* the placeholder returned for an empty frame
ExpertPlaceholder ==
    [response_summary |->
        [total_experts |-> 0,
         expert_types |-> <<>>,
         avg_years_experience |-> Int2F(0),
         resource_limited_experience_pct |-> Int2F(0),
         note |-> "No expert evaluation data collected yet"],
     sus_analysis |->
        [mean_sus |-> Int2F(0),
         std_sus |-> Int2F(0),
         sus_grade |-> "N/A",
         above_average |-> Int2F(0),
         note |-> "Expert evaluation pending"]]

\* the response_summary of a frame
ResponseSummary(df) ==
    [total_experts |-> Len(df.rows),
     expert_types |-> ValueCounts(Column(df, "expert_type")),
     avg_years_experience |-> SeriesMean(Column(df, "years_experience")),
     resource_limited_experience_pct |->
        IF Len(df.rows) > 0
        THEN FMul(FDiv(Int2F(Cardinality(
                    {i \in DOMAIN Column(df, "resource_limited_experience") :
                        df.rows[i].resource_limited_experience = "True"})),
                  Int2F(Len(df.rows))), Int2F(100))
        ELSE Int2F(0)]

\* the sus_analysis of a frame
SusAnalysis(df) ==
    IF SusColumn \in df.columns
    THEN LET sus_scores == Column(df, SusColumn)
         IN  [mean_sus |-> SeriesMean(sus_scores),
              std_sus |-> SeriesStd(sus_scores),
              sus_grade |-> calculate_sus_grade(SeriesMean(sus_scores)),
              above_average |->
                  FMul(FDiv(Int2F(Cardinality({i \in DOMAIN sus_scores :
                                        FGt(sus_scores[i], Int2F(70))})),
                            Int2F(Len(sus_scores))), Int2F(100))]
    ELSE [mean_sus |-> Int2F(0),
          std_sus |-> Int2F(0),
          sus_grade |-> "N/A",
          above_average |-> Int2F(0),
          note |-> "SUS data not available"]

\* analyze_expert_responses without the check for an empty frame
analyze_expert_responses_unchecked(expert_responses_df) ==
    LET analysis == [response_summary |-> ResponseSummary(expert_responses_df),
                     sus_analysis |-> SusAnalysis(expert_responses_df)]
    IN  IF Raised(analysis.sus_analysis.above_average)
        THEN Raise("ZeroDivisionError")
        ELSE Return(analysis)

analyze_expert_responses(expert_responses_df) ==
    IF IsEmptyFrame(expert_responses_df)
    THEN Return(ExpertPlaceholder)
    ELSE LET analysis ==
                [response_summary |-> ResponseSummary(expert_responses_df),
                 sus_analysis |-> SusAnalysis(expert_responses_df)]
         IN  IF Raised(analysis.sus_analysis.above_average)
             THEN Raise("ZeroDivisionError")
             ELSE Return(analysis)

\* The frames given to the analyzer: with all four columns, without the
\* usability column, and pd.DataFrame() (no columns, no rows).
ExpertRows(columns) ==
    [expert_type : {"Clinical", "Global Health", "NA"},
     years_experience : {Int2F(4), Int2F(10)},
     resource_limited_experience : {"True", "False"},
     overall_assessment_system_usability_scale :
        IF SusColumn \in columns
        THEN {NaN, Int2F(45), Int2F(70), Int2F(90)}
        ELSE {NaN}]
ExpertFrames(max_rows) ==
    {[columns |-> {}, rows |-> <<>>]}
    \cup {[columns |-> ExpertColumns, rows |-> rows] :
            rows \in SeqsUpTo(ExpertRows(ExpertColumns), max_rows)}
    \cup {[columns |-> ExpertColumns \ {SusColumn}, rows |-> rows] :
            rows \in SeqsUpTo(ExpertRows(ExpertColumns \ {SusColumn}), max_rows)}

\* A comment is a Python value: its type and, for a string, its text.
Str(text) == [type |-> "str", value |-> text]
None == [type |-> "NoneType", value |-> "None"]
PyFloat(repr) == [type |-> "float", value |-> repr]
PyInt(repr) == [type |-> "int", value |-> repr]

\* bool(comment): None, 0 and the empty string are false
Truthy(comment) ==
    CASE comment.type = "str" -> comment.value # ""
      [] comment.type = "NoneType" -> FALSE
      [] comment.type = "int" -> comment.value # "0"
      [] OTHER -> TRUE

\* str.lower() of a text
UpperCase == "ABCDEFGHIJKLMNOPQRSTUVWXYZ"
LowerCase == "abcdefghijklmnopqrstuvwxyz"
LowerChar(c) ==
    IF \E i \in 1..Len(UpperCase) : SubSeq(UpperCase, i, i) = c
    THEN LET i == CHOOSE k \in 1..Len(UpperCase) : SubSeq(UpperCase, k, k) = c
         IN  SubSeq(LowerCase, i, i)
    ELSE c
RECURSIVE Lower(_)
Lower(text) ==
    IF Len(text) <= 1 THEN LowerChar(text)
    ELSE Lower(SubSeq(text, 1, Len(text) \div 2))
            \o Lower(SubSeq(text, Len(text) \div 2 + 1, Len(text)))

\* keyword in text: the keyword is a substring of the text
Contains(text, keyword) ==
    \E i \in 1..(Len(text) - Len(keyword) + 1) :
        SubSeq(text, i, i + Len(keyword) - 1) = keyword

\* the keys of themes, in the order of the dict, and themes[theme]
theme_names ==
    <<"usability", "clinical_safety", "technical_issues",
      "deployment_concerns", "positive_feedback", "negative_feedback">>
themes(theme) ==
    CASE theme = "usability" ->
            <<"easy", "intuitive", "user-friendly", "simple", "complex", "difficult">>
      [] theme = "clinical_safety" ->
            <<"safe", "dangerous", "risk", "accurate", "error", "mistake">>
      [] theme = "technical_issues" ->
            <<"bug", "crash", "slow", "fast", "reliable", "unstable">>
      [] theme = "deployment_concerns" ->
            <<"training", "cost", "infrastructure", "support", "maintenance">>
      [] theme = "positive_feedback" ->
            <<"excellent", "good", "helpful", "useful", "valuable">>
      [] theme = "negative_feedback" ->
            <<"poor", "bad", "problematic", "concerning", "inadequate">>

\* The comments given to perform_thematic_analysis: texts with keywords of
\* one or several themes, in both cases of letters, a text of more than 100
\* characters, a text without keywords, the empty text, and the values that
\* stand for a comment that was not given (None, nan) or is not a text.
TwoThemes == "The interface is intuitive but the app is slow"
TwoKeywords == "Easy and SIMPLE"
LongComment ==
    "Staff found the referral steps difficult at first, and two days of "
    \o "training were needed at every rural clinic, which was useful"
CommentSamples ==
    {Str(TwoThemes), Str(TwoKeywords), Str(LongComment), Str("No remarks"),
     Str(""), None, PyFloat("nan"), PyInt("42")}

\* keyword in comment.lower().  The keywords that a text holds are computed
\* once for every text and every keyword, not at every call.
AllKeywords == UNION {Range(themes(theme)) : theme \in Range(theme_names)}
KeywordsFound ==
    [text \in {c.value : c \in {x \in CommentSamples : x.type = "str"}} |->
        {keyword \in AllKeywords : Contains(Lower(text), keyword)}]
KeywordIn(keyword, comment) == keyword \in KeywordsFound[comment]

\* comment[:100] + "..."
Example(comment) ==
    SubSeq(comment, 1, IF Len(comment) < 100 THEN Len(comment) ELSE 100) \o "..."

\* the body of the keyword loop on a match that keeps the example and does
\* not count the mention
CountMentionExampleOnly(entry, comment) ==
    [entry EXCEPT !.examples = IF Len(@) < 3 THEN Append(@, Example(comment)) ELSE @]

\* the body of the keyword loop on a match without the limit of examples
CountMentionUncapped(entry, comment) ==
    [entry EXCEPT !.mentions = @ + 1,
                  !.examples = Append(@, Example(comment))]

\* the body of the keyword loop on a match: one more mention, and one more
\* example while there are fewer than three
CountMention(entry, comment) ==
    [entry EXCEPT !.mentions = @ + 1,
                  !.examples = IF Len(@) < 3 THEN Append(@, Example(comment)) ELSE @]

\* the keyword loop that goes on after a match
RECURSIVE ScanKeywordsNoBreak(_, _, _)
ScanKeywordsNoBreak(entry, keywords, comment) ==
    IF keywords = <<>> THEN entry
    ELSE IF KeywordIn(Head(keywords), comment)
         THEN ScanKeywordsNoBreak(CountMention(entry, comment), Tail(keywords),
                                  comment)
         ELSE ScanKeywordsNoBreak(entry, Tail(keywords), comment)

\* the keyword loop of one comment: it ends at the first keyword found
RECURSIVE ScanKeywords(_, _, _)
ScanKeywords(entry, keywords, comment) ==
    IF keywords = <<>> THEN entry
    ELSE IF KeywordIn(Head(keywords), comment)
         THEN CountMention(entry, comment)
         ELSE ScanKeywords(entry, Tail(keywords), comment)

\* the comment loop of one theme
RECURSIVE ScanComments(_, _, _)
ScanComments(entry, keywords, comments_data) ==
    IF comments_data = <<>> THEN entry
    ELSE LET comment == Head(comments_data)
         IN  ScanComments(
                IF Truthy(comment) /\ comment.type = "str"
                THEN ScanKeywords(entry, keywords, comment.value)
                ELSE entry,
                keywords, Tail(comments_data))

\* perform_thematic_analysis without the isinstance test: the first comment
\* that is true and no string has no lower()
perform_thematic_analysis_unchecked(comments_data) ==
    IF \E i \in DOMAIN comments_data :
            Truthy(comments_data[i]) /\ comments_data[i].type # "str"
    THEN Raise("AttributeError")
    ELSE Return([theme \in Range(theme_names) |->
                    ScanComments([mentions |-> 0, examples |-> <<>>],
                                 themes(theme), comments_data)])

perform_thematic_analysis(comments_data) ==
    Return([theme \in Range(theme_names) |->
                ScanComments([mentions |-> 0, examples |-> <<>>],
                             themes(theme), comments_data)])

\* the means given to calculate_sus_grade
SusMeans == {Frac(k, SusScale) : k \in 0..(MaxSus * SusScale)} \cup {NaN}

-----------------------------------------------------------------------------
(* FrameworkAssessmentAnalyzer                                             *)

\* self.nasss_domains and self.reaim_dimensions
nasss_domains ==
    <<"technology", "value_proposition", "adopters", "organization",
      "wider_system", "embedding", "adaptation">>
reaim_dimensions ==
    <<"reach", "effectiveness", "adoption", "implementation", "maintenance">>

\* A Python dict that is iterated: its keys in insertion order and its items.
Dict(keys, items) == [keys |-> keys, items |-> items]

\* the names of a vocabulary that are keys of assessment_data, in the order
\* of the vocabulary
RECURSIVE PresentNames(_, _)
PresentNames(vocabulary, assessment_data) ==
    IF vocabulary = <<>> THEN <<>>
    ELSE IF Head(vocabulary) \in DOMAIN assessment_data
         THEN <<Head(vocabulary)>> \o PresentNames(Tail(vocabulary), assessment_data)
         ELSE PresentNames(Tail(vocabulary), assessment_data)

\* np.mean with the mean of the empty list taken to be 0
NpMeanEmptyIsZero(xs) ==
    IF xs = <<>> THEN Int2F(0) ELSE FDiv(SumF(xs), Int2F(Len(xs)))

\* np.mean of a list of numbers: nan for the empty list
NpMean(xs) ==
    IF xs = <<>> THEN NaN ELSE FDiv(SumF(xs), Int2F(Len(xs)))

\* get_nasss_complexity_level with the first threshold exclusive
get_nasss_complexity_level_exclusive(score) ==
    IF ~FGe(score, Int2F(2)) /\ IsNum(score) THEN "Simple"
    ELSE IF FLe(score, Int2F(3)) THEN "Complicated"
    ELSE IF FLe(score, Int2F(4)) THEN "Complex"
    ELSE "Chaotic"

get_nasss_complexity_level(score) ==
    IF FLe(score, Int2F(2)) THEN "Simple"
    ELSE IF FLe(score, Int2F(3)) THEN "Complicated"
    ELSE IF FLe(score, Int2F(4)) THEN "Complex"
    ELSE "Chaotic"

\* get_reaim_readiness_level with the first threshold exclusive
get_reaim_readiness_level_exclusive(score) ==
    IF FGt(score, Int2F(8)) THEN "High Readiness"
    ELSE IF FGe(score, Int2F(6)) THEN "Moderate Readiness"
    ELSE IF FGe(score, Int2F(4)) THEN "Low Readiness"
    ELSE "Not Ready"

get_reaim_readiness_level(score) ==
    IF FGe(score, Int2F(8)) THEN "High Readiness"
    ELSE IF FGe(score, Int2F(6)) THEN "Moderate Readiness"
    ELSE IF FGe(score, Int2F(4)) THEN "Low Readiness"
    ELSE "Not Ready"

\* calculate_nasss_scores with a domain that is not assessed counted as 0
calculate_nasss_scores_absent_as_zero(assessment_data) ==
    LET present == PresentNames(nasss_domains, assessment_data)
        avg_score == FDiv(SumF([i \in 1..Len(present) |-> assessment_data[present[i]]]),
                          Int2F(Len(nasss_domains)))
    IN  Dict(Append(present, "overall"),
             [name \in Range(present) \cup {"overall"} |->
                IF name = "overall"
                THEN [score |-> avg_score,
                      complexity_level |-> get_nasss_complexity_level(avg_score)]
                ELSE [score |-> assessment_data[name],
                      complexity_level |->
                          get_nasss_complexity_level(assessment_data[name])]])

calculate_nasss_scores(assessment_data) ==
    LET present == PresentNames(nasss_domains, assessment_data)
        avg_score == NpMean([i \in 1..Len(present) |-> assessment_data[present[i]]])
    IN  Dict(Append(present, "overall"),
             [name \in Range(present) \cup {"overall"} |->
                IF name = "overall"
                THEN [score |-> avg_score,
                      complexity_level |-> get_nasss_complexity_level(avg_score)]
                ELSE [score |-> assessment_data[name],
                      complexity_level |->
                          get_nasss_complexity_level(assessment_data[name])]])

calculate_reaim_scores(assessment_data) ==
    LET present == PresentNames(reaim_dimensions, assessment_data)
        avg_score == NpMean([i \in 1..Len(present) |-> assessment_data[present[i]]])
    IN  Dict(Append(present, "overall"),
             [name \in Range(present) \cup {"overall"} |->
                IF name = "overall"
                THEN [score |-> avg_score,
                      readiness_level |-> get_reaim_readiness_level(avg_score)]
                ELSE [score |-> assessment_data[name],
                      readiness_level |->
                          get_reaim_readiness_level(assessment_data[name])]])

\* the recommendations of one analysis, in the order of its keys
RECURSIVE NasssRecommendations(_, _)
NasssRecommendations(keys, items) ==
    IF keys = <<>> THEN <<>>
    ELSE IF Head(keys) # "overall" /\ FGe(items[Head(keys)].score, Int2F(4))
         THEN <<<<"Address high complexity in", Head(keys)>>>>
                  \o NasssRecommendations(Tail(keys), items)
         ELSE NasssRecommendations(Tail(keys), items)

RECURSIVE ReaimRecommendations(_, _)
ReaimRecommendations(keys, items) ==
    IF keys = <<>> THEN <<>>
    ELSE IF Head(keys) # "overall" /\ FLe(items[Head(keys)].score, Int2F(4))
         THEN <<<<"Improve dimension", Head(keys)>>>>
                  \o ReaimRecommendations(Tail(keys), items)
         ELSE ReaimRecommendations(Tail(keys), items)

\* generate_implementation_recommendations with the two loops swapped
generate_implementation_recommendations_readiness_first(nasss_analysis, reaim_analysis) ==
    ReaimRecommendations(reaim_analysis.keys, reaim_analysis.items)
        \o NasssRecommendations(nasss_analysis.keys, nasss_analysis.items)

\* Each recommendation string is modelled by its template and the name put
\* into it.
generate_implementation_recommendations(nasss_analysis, reaim_analysis) ==
    NasssRecommendations(nasss_analysis.keys, nasss_analysis.items)
        \o ReaimRecommendations(reaim_analysis.keys, reaim_analysis.items)

\* make_readiness_decision with the second complexity threshold exclusive
make_readiness_decision_strict(nasss_analysis, reaim_analysis) ==
    LET nasss_score == nasss_analysis.items["overall"].score
        reaim_score == reaim_analysis.items["overall"].score
    IN  IF FLe(nasss_score, Int2F(3)) /\ FGe(reaim_score, Int2F(6))
        THEN "Ready for pilot implementation"
        ELSE IF ~FGe(nasss_score, Int2F(4)) /\ IsNum(nasss_score)
                /\ FGe(reaim_score, Int2F(4))
        THEN "Ready with modifications"
        ELSE "Requires significant development before implementation"

\* make_readiness_decision with the first complexity threshold exclusive
make_readiness_decision_exclusive(nasss_analysis, reaim_analysis) ==
    LET nasss_score == nasss_analysis.items["overall"].score
        reaim_score == reaim_analysis.items["overall"].score
    IN  IF ~FGe(nasss_score, Int2F(3)) /\ IsNum(nasss_score)
           /\ FGe(reaim_score, Int2F(6))
        THEN "Ready for pilot implementation"
        ELSE IF FLe(nasss_score, Int2F(4)) /\ FGe(reaim_score, Int2F(4))
        THEN "Ready with modifications"
        ELSE "Requires significant development before implementation"

make_readiness_decision(nasss_analysis, reaim_analysis) ==
    LET nasss_score == nasss_analysis.items["overall"].score
        reaim_score == reaim_analysis.items["overall"].score
    IN  IF FLe(nasss_score, Int2F(3)) /\ FGe(reaim_score, Int2F(6))
        THEN "Ready for pilot implementation"
        ELSE IF FLe(nasss_score, Int2F(4)) /\ FGe(reaim_score, Int2F(4))
        THEN "Ready with modifications"
        ELSE "Requires significant development before implementation"

\* The report without its assessment_date, which is the wall clock's.
generate_framework_report(nasss_data, reaim_data) ==
    LET nasss_analysis == calculate_nasss_scores(nasss_data)
        reaim_analysis == calculate_reaim_scores(reaim_data)
    IN  [nasss_assessment |-> nasss_analysis,
         reaim_assessment |-> reaim_analysis,
         implementation_recommendations |->
            generate_implementation_recommendations(nasss_analysis, reaim_analysis),
         readiness_decision |->
            make_readiness_decision(nasss_analysis, reaim_analysis)]

\* The analyses given to make_readiness_decision alone: only the 'overall'
\* entry, which is all it reads, with every score of the grid and nan.
OverallOnlyNasss(score) ==
    Dict(<<"overall">>,
         [name \in {"overall"} |->
            [score |-> score,
             complexity_level |-> get_nasss_complexity_level(score)]])
OverallOnlyReaim(score) ==
    Dict(<<"overall">>,
         [name \in {"overall"} |->
            [score |-> score,
             readiness_level |-> get_reaim_readiness_level(score)]])
ScoreGrid(max) == {Frac(k, ScoreScale) : k \in 0..(max * ScoreScale)} \cup {NaN}

\* The assessment_data given to calculate_nasss_scores and
\* calculate_reaim_scores: every name of the vocabulary is absent or has one
\* of a few scores, and a key that is no name of the vocabulary may be there.
NasssValues == {Int2F(2), Int2F(4), Frac(9, 2)}
ReaimValues == {Frac(7, 2), Int2F(4), Int2F(8)}
AssessmentData(choice, other) ==
    [name \in {n \in DOMAIN choice \cup DOMAIN other :
                  n \in DOMAIN other \/ choice[n] # Absent} |->
        IF name \in DOMAIN other THEN other[name] ELSE choice[name]]
OtherKeys == {<<>>, [name \in {"cost"} |-> Int2F(5)]}
AssessmentInputs(vocabulary, values, others) ==
    {AssessmentData(choice, other) :
        choice \in [Range(vocabulary) -> values \cup {Absent}],
        other \in others}

\* the scores given to a label function alone: a finer grid, and nan
LevelGrid(max) == {Frac(k, LevelScale) : k \in 0..(max * LevelScale)} \cup {NaN}

-----------------------------------------------------------------------------
(* ATLASIntegratedAnalyzer                                                 *)

\* d.get(key, default)
Get(d, key, default) == IF key \in DOMAIN d THEN d[key] ELSE default

\* {} and pd.DataFrame()
EmptyDict == <<>>
EmptyDataFrame == [columns |-> {}, rows |-> <<>>]

PerformanceAchievement == "Strong technical performance across PWA metrics"
UsabilityAchievement == "Above-average usability scores from expert evaluation"

\* draw_integrated_conclusions with the technical threshold exclusive
draw_integrated_conclusions_exclusive(report_data) ==
    LET tech_performance == Get(report_data, "technical_performance", EmptyDict)
        expert_data == Get(report_data, "expert_evaluation", EmptyDict)
        framework_data == Get(report_data, "framework_assessment", EmptyDict)
        technical ==
            IF FGt(Get(Get(tech_performance, "summary", EmptyDict),
                       "overall_score", Int2F(0)), Int2F(75))
            THEN <<PerformanceAchievement>> ELSE <<>>
        usability ==
            IF FGe(Get(Get(expert_data, "sus_analysis", EmptyDict),
                       "mean_sus", Int2F(0)), Int2F(70))
            THEN <<UsabilityAchievement>> ELSE <<>>
    IN  [overall_assessment |-> "",
         key_achievements |-> technical \o usability,
         primary_limitations |-> <<>>,
         readiness_indicators |->
            [framework_decision |-> Get(framework_data, "readiness_decision", "")],
         future_priorities |-> <<>>]

draw_integrated_conclusions(report_data) ==
    LET tech_performance == Get(report_data, "technical_performance", EmptyDict)
        expert_data == Get(report_data, "expert_evaluation", EmptyDict)
        framework_data == Get(report_data, "framework_assessment", EmptyDict)
        technical ==
            IF FGe(Get(Get(tech_performance, "summary", EmptyDict),
                       "overall_score", Int2F(0)), Int2F(75))
            THEN <<PerformanceAchievement>> ELSE <<>>
        usability ==
            IF FGe(Get(Get(expert_data, "sus_analysis", EmptyDict),
                       "mean_sus", Int2F(0)), Int2F(70))
            THEN <<UsabilityAchievement>> ELSE <<>>
    IN  [overall_assessment |-> "",
         key_achievements |-> technical \o usability,
         primary_limitations |-> <<>>,
         readiness_indicators |->
            [framework_decision |-> Get(framework_data, "readiness_decision", "")],
         future_priorities |-> <<>>]

\* The four analyses of generate_comprehensive_report, in the order the
\* report dict evaluates them.  pd.DataFrame(), the default of
\* clinical_results, has no 'category' column: selecting it raises KeyError.
TechnicalPerformance(all_data) ==
    generate_performance_report(Get(all_data, "performance_metrics", EmptyDict))
ClinicalValidation(all_data) ==
    IF "clinical_results" \in DOMAIN all_data
    THEN analyze_who_alignment(all_data["clinical_results"])
    ELSE Raise("KeyError")
ExpertEvaluation(all_data) ==
    analyze_expert_responses(Get(all_data, "expert_responses", EmptyDataFrame))
FrameworkAssessment(all_data) ==
    generate_framework_report(Get(all_data, "nasss_data", EmptyDict),
                              Get(all_data, "reaim_data", EmptyDict))

\* the report before integrated_conclusions is added, without its
\* evaluation_date
ReportBody(all_data) ==
    [evaluation_summary |->
        [app_url |-> app_url,
         evaluation_components |->
            <<"Technical Performance", "Clinical Validation",
              "Expert Evaluation", "Framework Assessment">>],
     technical_performance |-> TechnicalPerformance(all_data).value,
     clinical_validation |-> ClinicalValidation(all_data).value,
     expert_evaluation |-> ExpertEvaluation(all_data).value,
     framework_assessment |-> FrameworkAssessment(all_data)]

generate_comprehensive_report(all_data) ==
    IF ~Returned(TechnicalPerformance(all_data)) THEN TechnicalPerformance(all_data)
    ELSE IF ~Returned(ClinicalValidation(all_data)) THEN ClinicalValidation(all_data)
    ELSE IF ~Returned(ExpertEvaluation(all_data)) THEN ExpertEvaluation(all_data)
    ELSE Return([k \in DOMAIN ReportBody(all_data) \cup {"integrated_conclusions"} |->
                    IF k = "integrated_conclusions"
                    THEN draw_integrated_conclusions(ReportBody(all_data))
                    ELSE ReportBody(all_data)[k]])

\* The all_data given to the analyzer: every key is absent or has one of a
\* few values.
Opt(values) ==
    {[present |-> FALSE, value |-> <<>>]}
        \cup {[present |-> TRUE, value |-> v] : v \in values}
AllData(choice) ==
    [k \in {key \in DOMAIN choice : choice[key].present} |-> choice[k].value]

\* the performance_metrics of main_atlas_evaluation; three targets met of
\* four metrics; five targets met of five
PerformanceSamples ==
    {EmptyDict,
     [pwa_score |-> Int2F(85), performance_score |-> Int2F(78),
      first_contentful_paint |-> Frac(18, 10), time_to_interactive |-> Frac(24, 10),
      offline_success_rate |-> Int2F(92)],
     [pwa_score |-> Int2F(90), performance_score |-> Int2F(80),
      first_contentful_paint |-> Frac(18, 10), time_to_interactive |-> Frac(52, 10)],
     [pwa_score |-> Int2F(100), performance_score |-> Int2F(92),
      first_contentful_paint |-> Frac(18, 10), time_to_interactive |-> Frac(24, 10),
      offline_success_rate |-> Int2F(95)]}

\* one case in every category; no case in one category
ClinicalSamples ==
    {[i \in 1..4 |->
        [category |-> scenario_categories[i], who_aligned |-> "True",
         appropriate_recommendation |-> "True", resource_aware |-> "False"]],
     [i \in 1..3 |->
        [category |-> scenario_categories[i], who_aligned |-> "False",
         appropriate_recommendation |-> "True", resource_aware |-> "True"]]}

\* no response; one response with usability 70, with usability 45, and
\* without a usability column
ExpertSample(columns, sus) ==
    [columns |-> columns,
     rows |-> <<[expert_type |-> "Clinical", years_experience |-> Int2F(10),
                 resource_limited_experience |-> "True",
                 overall_assessment_system_usability_scale |-> sus]>>]
ExpertSamples ==
    {EmptyDataFrame,
     [columns |-> ExpertColumns, rows |-> <<>>],
     ExpertSample(ExpertColumns, Int2F(70)),
     ExpertSample(ExpertColumns, Int2F(45)),
     ExpertSample(ExpertColumns \ {SusColumn}, NaN)}

\* the nasss_data and reaim_data of main_atlas_evaluation; an assessment of
\* one entry; the empty dict
NasssSamples ==
    {EmptyDict,
     [technology |-> Frac(25, 10), value_proposition |-> Int2F(3),
      adopters |-> Frac(35, 10), organization |-> Int2F(4),
      wider_system |-> Int2F(3), embedding |-> Frac(35, 10),
      adaptation |-> Int2F(2)],
     [technology |-> Int2F(2)]}
ReaimSamples ==
    {EmptyDict,
     [reach |-> Int2F(7), effectiveness |-> Frac(65, 10), adoption |-> Int2F(5),
      implementation |-> Frac(45, 10), maintenance |-> Int2F(6)],
     [reach |-> Int2F(8)]}

AllDataSamples ==
    {AllData([performance_metrics |-> p, clinical_results |-> c,
              expert_responses |-> e, nasss_data |-> n, reaim_data |-> r]) :
        p \in Opt(PerformanceSamples), c \in Opt(ClinicalSamples),
        e \in Opt(ExpertSamples), n \in Opt(NasssSamples),
        r \in Opt(ReaimSamples)}

-----------------------------------------------------------------------------
(* The calls                                                               *)

\* no test method is running
NoFrame == [pc |-> "idle"]
\* a browser that is online and has been given no command
FreshBrowser == [offline |-> FALSE, commands |-> <<>>]

\* One call of one scorer: there is no tester and no evaluation run.
Init ==
    /\ op = "idle"
    /\ arg = <<>>
    /\ ret = Return(<<>>)
    /\ driver = None
    /\ test_results = <<>>
    /\ browser = FreshBrowser
    /\ frame = NoFrame
    /\ analyzers = <<>>
    /\ runs = <<>>

CalculateClinicalMetrics ==
    /\ op = "idle"
    /\ UNCHANGED <<tester_vars, run_vars>>
    /\ \E results_df \in SeqsUpTo(MetricsRows, MaxRows) :
        /\ op' = "calculate_clinical_metrics"
        /\ arg' = results_df
        /\ ret' = calculate_clinical_metrics(results_df)

AnalyzeWhoAlignment ==
    /\ op = "idle"
    /\ UNCHANGED <<tester_vars, run_vars>>
    /\ \E results_df \in SeqsUpTo(AlignmentRows, MaxCases) :
        /\ op' = "analyze_who_alignment"
        /\ arg' = results_df
        /\ ret' = analyze_who_alignment(results_df)

NextClinical == CalculateClinicalMetrics \/ AnalyzeWhoAlignment

SpecClinical == Init /\ [][NextClinical]_vars

AnalyzePerformanceMetrics ==
    /\ op = "idle"
    /\ UNCHANGED <<tester_vars, run_vars>>
    /\ \E metrics_data \in MetricsInputs :
        /\ op' = "analyze_performance_metrics"
        /\ arg' = metrics_data
        /\ ret' = Return(analyze_performance_metrics(metrics_data))

GeneratePerformanceReport ==
    /\ op = "idle"
    /\ UNCHANGED <<tester_vars, run_vars>>
    /\ \E metrics_data \in MetricsInputs :
        /\ op' = "generate_performance_report"
        /\ arg' = metrics_data
        /\ ret' = generate_performance_report(metrics_data)

NextPerformance == AnalyzePerformanceMetrics \/ GeneratePerformanceReport

SpecPerformance == Init /\ [][NextPerformance]_vars

AnalyzeExpertResponses ==
    /\ op = "idle"
    /\ UNCHANGED <<tester_vars, run_vars>>
    /\ \E expert_responses_df \in ExpertFrames(MaxExperts) :
        /\ op' = "analyze_expert_responses"
        /\ arg' = expert_responses_df
        /\ ret' = analyze_expert_responses(expert_responses_df)

CalculateSusGrade ==
    /\ op = "idle"
    /\ UNCHANGED <<tester_vars, run_vars>>
    /\ \E sus_score \in SusMeans :
        /\ op' = "calculate_sus_grade"
        /\ arg' = sus_score
        /\ ret' = Return(calculate_sus_grade(sus_score))

PerformThematicAnalysis ==
    /\ op = "idle"
    /\ UNCHANGED <<tester_vars, run_vars>>
    /\ \E comments_data \in SeqsUpTo(CommentSamples, MaxComments) :
        /\ op' = "perform_thematic_analysis"
        /\ arg' = comments_data
        /\ ret' = perform_thematic_analysis(comments_data)

NextExpert ==
    \/ AnalyzeExpertResponses
    \/ CalculateSusGrade
    \/ PerformThematicAnalysis

SpecExpert == Init /\ [][NextExpert]_vars

MakeReadinessDecision ==
    /\ op = "idle"
    /\ UNCHANGED <<tester_vars, run_vars>>
    /\ \E c \in ScoreGrid(MaxComplexity), r \in ScoreGrid(MaxReadiness) :
        /\ op' = "make_readiness_decision"
        /\ arg' = <<OverallOnlyNasss(c), OverallOnlyReaim(r)>>
        /\ ret' = Return(make_readiness_decision(OverallOnlyNasss(c),
                                                 OverallOnlyReaim(r)))

GetNasssComplexityLevel ==
    /\ op = "idle"
    /\ UNCHANGED <<tester_vars, run_vars>>
    /\ \E score \in LevelGrid(MaxComplexity) :
        /\ op' = "get_nasss_complexity_level"
        /\ arg' = score
        /\ ret' = Return(get_nasss_complexity_level(score))

GetReaimReadinessLevel ==
    /\ op = "idle"
    /\ UNCHANGED <<tester_vars, run_vars>>
    /\ \E score \in LevelGrid(MaxReadiness) :
        /\ op' = "get_reaim_readiness_level"
        /\ arg' = score
        /\ ret' = Return(get_reaim_readiness_level(score))

CalculateNasssScores ==
    /\ op = "idle"
    /\ UNCHANGED <<tester_vars, run_vars>>
    /\ \E assessment_data \in AssessmentInputs(nasss_domains, NasssValues, OtherKeys) :
        /\ op' = "calculate_nasss_scores"
        /\ arg' = assessment_data
        /\ ret' = Return(calculate_nasss_scores(assessment_data))

CalculateReaimScores ==
    /\ op = "idle"
    /\ UNCHANGED <<tester_vars, run_vars>>
    /\ \E assessment_data \in AssessmentInputs(reaim_dimensions, ReaimValues, OtherKeys) :
        /\ op' = "calculate_reaim_scores"
        /\ arg' = assessment_data
        /\ ret' = Return(calculate_reaim_scores(assessment_data))

\* generate_implementation_recommendations is given the analyses that
\* calculate_nasss_scores and calculate_reaim_scores return
GenerateImplementationRecommendations ==
    /\ op = "idle"
    /\ UNCHANGED <<tester_vars, run_vars>>
    /\ \E nasss_data \in AssessmentInputs(SubSeq(nasss_domains, 1, MaxDomains),
                                           NasssValues, {<<>>}),
          reaim_data \in AssessmentInputs(SubSeq(reaim_dimensions, 1, MaxDimensions),
                                           ReaimValues, {<<>>}) :
        /\ op' = "generate_implementation_recommendations"
        /\ arg' = <<calculate_nasss_scores(nasss_data),
                    calculate_reaim_scores(reaim_data)>>
        /\ ret' = Return(generate_implementation_recommendations(
                            calculate_nasss_scores(nasss_data),
                            calculate_reaim_scores(reaim_data)))

GenerateFrameworkReport ==
    /\ op = "idle"
    /\ UNCHANGED <<tester_vars, run_vars>>
    /\ \E nasss_data \in AssessmentInputs(SubSeq(nasss_domains, 1, MaxDomains),
                                           NasssValues, {<<>>}),
          reaim_data \in AssessmentInputs(SubSeq(reaim_dimensions, 1, MaxDimensions),
                                           ReaimValues, {<<>>}) :
        /\ op' = "generate_framework_report"
        /\ arg' = <<nasss_data, reaim_data>>
        /\ ret' = Return(generate_framework_report(nasss_data, reaim_data))

NextFramework ==
    \/ MakeReadinessDecision
    \/ GenerateFrameworkReport
    \/ GenerateImplementationRecommendations
    \/ CalculateNasssScores
    \/ CalculateReaimScores
    \/ GetNasssComplexityLevel
    \/ GetReaimReadinessLevel

SpecFramework == Init /\ [][NextFramework]_vars

GenerateComprehensiveReport ==
    /\ op = "idle"
    /\ UNCHANGED <<tester_vars, run_vars>>
    /\ \E all_data \in AllDataSamples :
        /\ op' = "generate_comprehensive_report"
        /\ arg' = all_data
        /\ ret' = generate_comprehensive_report(all_data)

\* draw_integrated_conclusions is given the report of a run, or {}
DrawIntegratedConclusions ==
    /\ op = "idle"
    /\ UNCHANGED <<tester_vars, run_vars>>
    /\ \E report_data \in
            {ReportBody(all_data) :
                all_data \in {d \in AllDataSamples :
                                Returned(generate_comprehensive_report(d))}}
            \cup {EmptyDict} :
        /\ op' = "draw_integrated_conclusions"
        /\ arg' = report_data
        /\ ret' = Return(draw_integrated_conclusions(report_data))

NextIntegrated ==
    \/ GenerateComprehensiveReport
    \/ DrawIntegratedConclusions
    \/ AnalyzeExpertResponses

SpecIntegrated == Init /\ [][NextIntegrated]_vars

-----------------------------------------------------------------------------
(* Claims about ClinicalScenarioAnalyzer                                   *)

CellTotal(results_df) ==
    CellTP(results_df) + CellFP(results_df) + CellTN(results_df) + CellFN(results_df)

CalledMetrics == op = "calculate_clinical_metrics"
CalledAlignment == op = "analyze_who_alignment"

\* C2: whenever calculate_clinical_metrics returns, the four cells add up to
\* the number of rows of its input and the accuracy is in [0, 1].
C2_CellsPartitionRows ==
    (CalledMetrics /\ Returned(ret)) =>
        /\ CellTotal(arg) = Len(arg)
        /\ FGe(ret.value.accuracy, Int2F(0))
        /\ FLe(ret.value.accuracy, Int2F(1))

\* C3: whenever TP = 0 and a metrics record exists (some cell is not 0),
\* f1_score is 0 whatever FP, TN and FN are; whenever TP > 0 a record is
\* returned whose f1_score is 2 * precision * recall / (precision + recall),
\* which is not 0: TP = 0 is the only guard.
C3_F1ZeroExactlyWhenNoTP ==
    CalledMetrics =>
        /\ (CellTP(arg) = 0 /\ CellTotal(arg) > 0) =>
              /\ Returned(ret)
              /\ FEq(ret.value.f1_score, Int2F(0))
        /\ CellTP(arg) > 0 =>
              /\ Returned(ret)
              /\ FGt(ret.value.f1_score, Int2F(0))
              /\ FEq(FMul(ret.value.f1_score,
                          FAdd(ret.value.precision, ret.value.recall)),
                     FMul(Int2F(2), FMul(ret.value.precision, ret.value.recall)))

C3_Witness ==
    /\ CalledMetrics
    /\ CellTP(arg) = 0 /\ CellFP(arg) > 0 /\ CellFN(arg) > 0
    /\ Returned(ret)
    /\ FEq(ret.value.f1_score, Int2F(0))

\* the ratio num / den when den > 0, and 0 when den = 0
IsGuardedRatio(x, num, den) ==
    /\ IsNum(x)
    /\ den = 0 => x.num = 0
    /\ den > 0 => x.num * den = num * x.den

\* C4: precision, recall and specificity are 0 when their own denominator
\* is 0 and the ratio otherwise, and a zero denominator of one of them never
\* makes the call raise: the call returns whenever some cell is not 0.
C4_RatiosDefaultToZero ==
    CalledMetrics =>
        /\ CellTotal(arg) > 0 => Returned(ret)
        /\ Returned(ret) =>
              /\ IsGuardedRatio(ret.value.precision, CellTP(arg),
                                CellTP(arg) + CellFP(arg))
              /\ IsGuardedRatio(ret.value.recall, CellTP(arg),
                                CellTP(arg) + CellFN(arg))
              /\ IsGuardedRatio(ret.value.specificity, CellTN(arg),
                                CellTN(arg) + CellFP(arg))

C4_Witness ==
    /\ CalledMetrics
    /\ Returned(ret)
    /\ CellTP(arg) + CellFP(arg) = 0
    /\ CellTN(arg) + CellFP(arg) > 0
    /\ FEq(ret.value.precision, Int2F(0))
    /\ FEq(ret.value.specificity, Int2F(1))

\* C5: calculate_clinical_metrics raises, and returns no metrics record,
\* when TP + FP + TN + FN = 0.
C5_ZeroTotalRaises ==
    (CalledMetrics /\ CellTotal(arg) = 0) => ret.raised = "ZeroDivisionError"

C5_Witness ==
    /\ CalledMetrics
    /\ arg = <<>>
    /\ ret.raised = "ZeroDivisionError"

HasNonBooleanLabel(results_df) ==
    \E i \in 1..Len(results_df) :
        \E column \in DOMAIN results_df[i] \ {"category"} :
            results_df[i][column] \notin {"True", "False"}

\* C6: a results_df with a label that is not a boolean makes
\* calculate_clinical_metrics and analyze_who_alignment raise.
C6_NonBooleanLabelRaises ==
    ((CalledMetrics \/ CalledAlignment) /\ HasNonBooleanLabel(arg))
        => ~Returned(ret)

\* C7: analyze_who_alignment returns for every results_df, and a category
\* without cases is reported with total_cases 0 and the three percentages 0.
C7_EmptyCategoryReportsZero ==
    CalledAlignment =>
        /\ Returned(ret)
        /\ \A c \in Range(scenario_categories) :
              Len(SelectCategory(arg, c)) = 0 =>
                /\ ret.value[c].total_cases = 0
                /\ FEq(ret.value[c].alignment_percentage, Int2F(0))
                /\ FEq(ret.value[c].appropriateness_percentage, Int2F(0))
                /\ FEq(ret.value[c].resource_awareness_percentage, Int2F(0))

-----------------------------------------------------------------------------
(* Claims about ATLASPerformanceAnalyzer                                   *)

\* C8: generate_performance_report returns also when metrics_data holds none
\* of the five target names, with total_metrics 0, targets_met 0 and
\* overall_score 0.
C8_NoTargetMetricReportsZero ==
    (op = "generate_performance_report"
        /\ DOMAIN arg \cap Range(target_names) = {}) =>
        /\ Returned(ret)
        /\ ret.value.summary.total_metrics = 0
        /\ ret.value.summary.targets_met = 0
        /\ FEq(ret.value.summary.overall_score, Int2F(0))

\* C16: in the result of analyze_performance_metrics meets_target is
\* actual >= target for pwa_score, performance_score and
\* offline_success_rate and actual <= target for first_contentful_paint and
\* time_to_interactive, so an actual equal to its target meets it; a
\* pwa_score of 85 and a performance_score of 78 do not meet 90 and 80.
C16_MeetsTargetByDirection ==
    op = "analyze_performance_metrics" =>
        /\ Returned(ret)
        /\ \A metric \in DOMAIN ret.value :
              LET entry == ret.value[metric]
              IN  /\ metric \in {"pwa_score", "performance_score",
                                  "offline_success_rate"}
                        => (entry.meets_target <=> FGe(entry.actual, entry.target))
                  /\ metric \in {"first_contentful_paint", "time_to_interactive"}
                        => (entry.meets_target <=> FLe(entry.actual, entry.target))
                  /\ FEq(entry.actual, entry.target) => entry.meets_target
        /\ ("pwa_score" \in DOMAIN arg /\ arg["pwa_score"] = Int2F(85))
              => /\ ret.value["pwa_score"].target = Int2F(90)
                 /\ ~ret.value["pwa_score"].meets_target
        /\ ("performance_score" \in DOMAIN arg /\ arg["performance_score"] = Int2F(78))
              => /\ ret.value["performance_score"].target = Int2F(80)
                 /\ ~ret.value["performance_score"].meets_target

C16_Witness ==
    /\ op = "analyze_performance_metrics"
    /\ DOMAIN arg = {"pwa_score", "performance_score", "first_contentful_paint"}
    /\ arg["pwa_score"] = Int2F(85)
    /\ arg["performance_score"] = Int2F(78)
    /\ FEq(arg["first_contentful_paint"], Int2F(2))
    /\ Returned(ret)
    /\ ~ret.value["pwa_score"].meets_target
    /\ ~ret.value["performance_score"].meets_target
    /\ ret.value["first_contentful_paint"].meets_target

\* C17: for every metric that analyze_performance_metrics compares,
\* variance_percent is (actual - target) / target * 100: negative when the
\* actual is below the target, 0 when equal and positive when above.  The
\* division raises ZeroDivisionError on a target of 0, which no compared
\* metric has.  A pwa_score of 85 gives -50/9 (about -5.56) and a
\* performance_score of 78 gives -2.5.
C17_VarianceIsSignedRelativeDifference ==
    op = "analyze_performance_metrics" =>
        /\ \A metric \in DOMAIN ret.value :
              LET entry == ret.value[metric]
                  variance == entry.variance_percent
              IN  /\ IsNum(variance)
                  /\ FGt(entry.target, Int2F(0))
                  /\ FEq(FMul(variance, entry.target),
                         FMul(FSub(entry.actual, entry.target), Int2F(100)))
                  /\ FGt(Int2F(0), variance) <=> FGt(entry.target, entry.actual)
                  /\ FEq(variance, Int2F(0)) <=> FEq(entry.actual, entry.target)
                  /\ FGt(variance, Int2F(0)) <=> FGt(entry.actual, entry.target)
                  /\ Raised(VariancePercent(entry.actual, Int2F(0)))
        /\ ("pwa_score" \in DOMAIN arg /\ arg["pwa_score"] = Int2F(85))
              => /\ FEq(ret.value["pwa_score"].variance_percent, Frac(-50, 9))
                 /\ FGt(ret.value["pwa_score"].variance_percent, Frac(-5565, 1000))
                 /\ FGt(Frac(-5555, 1000), ret.value["pwa_score"].variance_percent)
        /\ ("performance_score" \in DOMAIN arg /\ arg["performance_score"] = Int2F(78))
              => FEq(ret.value["performance_score"].variance_percent, Frac(-25, 10))

C17_Witness ==
    /\ op = "analyze_performance_metrics"
    /\ DOMAIN arg = {"pwa_score", "performance_score", "time_to_interactive"}
    /\ arg["pwa_score"] = Int2F(85)
    /\ arg["performance_score"] = Int2F(78)
    /\ FEq(ret.value["pwa_score"].variance_percent, Frac(-50, 9))
    /\ FEq(ret.value["performance_score"].variance_percent, Frac(-25, 10))
    /\ FGt(ret.value["time_to_interactive"].variance_percent, Int2F(0))

-----------------------------------------------------------------------------
(* Claims about ExpertEvaluationAnalyzer                                   *)

\* the place of a grade in the order F < D < C < B < A
GradeRank(grade) ==
    CASE grade = "F" -> 0 [] grade = "D" -> 1 [] grade = "C" -> 2
      [] grade = "B" -> 3 [] grade = "A" -> 4

\* C10: for a mean m in 0..100 calculate_sus_grade returns A iff m >= 85,
\* B iff 80 <= m < 85, C iff 70 <= m < 80, D iff 50 <= m < 70 and F iff
\* m < 50, and no mean above m gets a lower grade than m.
C10_SusGradeBands ==
    (op = "calculate_sus_grade" /\ IsNum(arg)) =>
        /\ ret.value = "A" <=> FGe(arg, Int2F(85))
        /\ ret.value = "B" <=> (FGe(arg, Int2F(80)) /\ ~FGe(arg, Int2F(85)))
        /\ ret.value = "C" <=> (FGe(arg, Int2F(70)) /\ ~FGe(arg, Int2F(80)))
        /\ ret.value = "D" <=> (FGe(arg, Int2F(50)) /\ ~FGe(arg, Int2F(70)))
        /\ ret.value = "F" <=> ~FGe(arg, Int2F(50))
        /\ \A m \in SusMeans :
              FGe(m, arg) => GradeRank(calculate_sus_grade(m)) >= GradeRank(ret.value)

C10_Witness ==
    /\ op = "calculate_sus_grade"
    /\ FEq(arg, Int2F(85))
    /\ ret = Return("A")

\* a frame with responses none of which holds a usability score: the column
\* is not there, or it holds no value in any row
HasNoUsabilityScore(df) ==
    /\ ~IsEmptyFrame(df)
    /\ DropNaN(Column(df, SusColumn)) = <<>>

\* C11: analyze_expert_responses on responses without any usability score
\* returns sus_grade 'N/A' with mean_sus 0 and std_sus 0, whether the column
\* is missing or is empty in every response.
C11_NoUsabilityScoreIsNA ==
    (op = "analyze_expert_responses" /\ HasNoUsabilityScore(arg)) =>
        /\ Returned(ret)
        /\ ret.value.sus_analysis.sus_grade = "N/A"
        /\ FEq(ret.value.sus_analysis.mean_sus, Int2F(0))
        /\ FEq(ret.value.sus_analysis.std_sus, Int2F(0))

\* the comments of comments_data that hold a keyword of a theme, whatever
\* the case of their letters
MatchingComments(comments_data, theme) ==
    {i \in DOMAIN comments_data :
        /\ comments_data[i].type = "str"
        /\ \E keyword \in Range(themes(theme)) :
              KeywordIn(keyword, comments_data[i].value)}

\* C18: the mentions of a theme are the number of comments that hold at
\* least one of its keywords as a substring in any case of letters: a comment
\* with several keywords of the theme counts once, and a comment with
\* keywords of several themes counts for each of them.  'The interface is
\* intuitive but the app is slow' alone gives usability 1 and
\* technical_issues 1.
C18_OneMentionPerCommentAndTheme ==
    op = "perform_thematic_analysis" =>
        /\ Returned(ret)
        /\ \A theme \in Range(theme_names) :
              ret.value[theme].mentions = Cardinality(MatchingComments(arg, theme))
        /\ arg = <<Str("The interface is intuitive but the app is slow")>> =>
              /\ ret.value["usability"].mentions = 1
              /\ ret.value["technical_issues"].mentions = 1
        /\ arg = <<Str("Easy and SIMPLE")>> => ret.value["usability"].mentions = 1

C18_Witness ==
    /\ op = "perform_thematic_analysis"
    /\ arg = <<Str("The interface is intuitive but the app is slow")>>
    /\ Returned(ret)
    /\ ret.value["usability"].mentions = 1
    /\ ret.value["technical_issues"].mentions = 1
    /\ ret.value["positive_feedback"].mentions = 0

\* the sum of the counts of a frequency table
RECURSIVE SumCounts(_)
SumCounts(table) ==
    IF DOMAIN table = {} THEN 0
    ELSE LET v == CHOOSE x \in DOMAIN table : TRUE
         IN  table[v] + SumCounts([w \in DOMAIN table \ {v} |-> table[w]])

\* C22: for a frame with responses analyze_expert_responses returns
\* total_experts = the number of responses, expert_types with the count of
\* every expert_type given (the counts add up to the number of responses
\* that give one, at most total_experts), and
\* resource_limited_experience_pct = 100 * (responses with
\* resource_limited_experience True) / total_experts, between 0 and 100.
C22_ResponseSummaryCounts ==
    (op = "analyze_expert_responses" /\ ~IsEmptyFrame(arg)) =>
        LET summary == ret.value.response_summary
            typed == {i \in DOMAIN arg.rows : arg.rows[i].expert_type # "NA"}
            limited == {i \in DOMAIN arg.rows :
                            arg.rows[i].resource_limited_experience = "True"}
        IN  /\ Returned(ret)
            /\ summary.total_experts = Len(arg.rows)
            /\ DOMAIN summary.expert_types = {arg.rows[i].expert_type : i \in typed}
            /\ \A t \in DOMAIN summary.expert_types :
                  summary.expert_types[t]
                      = Cardinality({i \in typed : arg.rows[i].expert_type = t})
            /\ SumCounts(summary.expert_types) = Cardinality(typed)
            /\ SumCounts(summary.expert_types) <= summary.total_experts
            /\ FEq(FMul(summary.resource_limited_experience_pct,
                        Int2F(summary.total_experts)),
                   Int2F(100 * Cardinality(limited)))
            /\ FGe(summary.resource_limited_experience_pct, Int2F(0))
            /\ FLe(summary.resource_limited_experience_pct, Int2F(100))

\* two responses, one without an expert_type and one with limited-resource
\* experience
C22_Witness ==
    /\ op = "analyze_expert_responses"
    /\ Len(arg.rows) = 2
    /\ arg.rows[1].expert_type = "NA"
    /\ arg.rows[2].expert_type = "Clinical"
    /\ arg.rows[1].resource_limited_experience = "True"
    /\ arg.rows[2].resource_limited_experience = "False"
    /\ Returned(ret)
    /\ ret.value.response_summary.total_experts = 2
    /\ ret.value.response_summary.expert_types = [t \in {"Clinical"} |-> 1]
    /\ FEq(ret.value.response_summary.resource_limited_experience_pct, Int2F(50))

\* a comment that is a string and not the empty one
IsText(comment) == comment.type = "str" /\ comment.value # ""

\* C19: perform_thematic_analysis returns for every comments_data, and what
\* it returns is what it returns for comments_data without its elements
\* that are no string, None or the empty string.
C19_SkipsWhatIsNoText ==
    op = "perform_thematic_analysis" =>
        /\ Returned(ret)
        /\ ret = perform_thematic_analysis(SelectSeq(arg, IsText))

C19_Witness ==
    /\ op = "perform_thematic_analysis"
    /\ arg = <<None, Str(TwoThemes), PyFloat("nan"), Str("")>>
    /\ ret = perform_thematic_analysis(<<Str(TwoThemes)>>)
    /\ ret.value["usability"].mentions = 1
    /\ Len(ret.value["usability"].examples) = 1

\* the first characters of a text, all of them when it has no more than n
FirstChars(text, n) == IF Len(text) <= n THEN text ELSE SubSeq(text, 1, n)

\* C20: the examples of a theme are made from the first three comments that
\* hold a keyword of the theme, in the order of comments_data, and are never
\* more than three; an example is the first 100 characters of its comment
\* followed by '...'.
C20_FirstThreeExamples ==
    op = "perform_thematic_analysis" =>
        \A theme \in Range(theme_names) :
            LET matching == MatchingComments(arg, theme)
                examples == ret.value[theme].examples
                \* the index in comments_data of the k-th matching comment
                Nth(k) == CHOOSE i \in matching :
                            Cardinality({j \in matching : j <= i}) = k
            IN  /\ Len(examples) <= 3
                /\ Len(examples) = IF Cardinality(matching) < 3
                                   THEN Cardinality(matching) ELSE 3
                /\ \A k \in 1..Len(examples) :
                      /\ examples[k] = FirstChars(arg[Nth(k)].value, 100) \o "..."
                      /\ Len(examples[k]) <= 103

C20_Witness ==
    /\ op = "perform_thematic_analysis"
    /\ arg = <<Str(TwoKeywords), Str(LongComment), Str(TwoThemes),
               Str(TwoKeywords)>>
    /\ Returned(ret)
    /\ ret.value["usability"].mentions = 4
    /\ ret.value["usability"].examples =
          <<"Easy and SIMPLE...",
            "Staff found the referral steps difficult at first, and two days of "
                \o "training were needed at every rur...",
            "The interface is intuitive but the app is slow...">>

\* C27: the result of perform_thematic_analysis has an entry for each of
\* the six themes and for nothing else; the mentions of a theme are at least
\* 0 and at most the number of comments that are non-empty strings, and its
\* examples are min(mentions, 3) many.
C27_ThemeEntriesWithinBounds ==
    op = "perform_thematic_analysis" =>
        /\ Returned(ret)
        /\ DOMAIN ret.value = Range(theme_names)
        /\ Cardinality(DOMAIN ret.value) = 6
        /\ \A theme \in DOMAIN ret.value :
              LET entry == ret.value[theme]
              IN  /\ DOMAIN entry = {"mentions", "examples"}
                  /\ entry.mentions >= 0
                  /\ entry.mentions <= Len(SelectSeq(arg, IsText))
                  /\ Len(entry.examples)
                        = (IF entry.mentions < 3 THEN entry.mentions ELSE 3)

\* four texts: one theme is mentioned by
\* all four texts, one by two of them, one by none
C27_Witness ==
    /\ op = "perform_thematic_analysis"
    /\ arg = <<Str(TwoKeywords), Str(TwoThemes), Str(TwoKeywords), Str(TwoThemes)>>
    /\ Returned(ret)
    /\ ret.value["usability"].mentions = 4
    /\ Len(ret.value["usability"].examples) = 3
    /\ ret.value["technical_issues"].mentions = 2
    /\ Len(ret.value["technical_issues"].examples) = 2
    /\ ret.value["clinical_safety"] = [mentions |-> 0, examples |-> <<>>]

-----------------------------------------------------------------------------
(* Claims about FrameworkAssessmentAnalyzer                                *)

Ready == "Ready for pilot implementation"
ReadyWithModifications == "Ready with modifications"
RequiresDevelopment == "Requires significant development before implementation"

\* the overall scores make_readiness_decision was called with
ArgComplexity == arg[1].items["overall"].score
ArgReadiness == arg[2].items["overall"].score

\* C1: make_readiness_decision returns Ready iff c <= 3 and r >= 6, Ready
\* with modifications iff that fails and c <= 4 and r >= 4, and Requires
\* development iff both fail; (3, 6) is Ready, (3.5, 5) is Ready with
\* modifications and (4.5, 3) is Requires development.
C1_DecisionTable ==
    op = "make_readiness_decision" =>
        LET c == ArgComplexity
            r == ArgReadiness
            first == FLe(c, Int2F(3)) /\ FGe(r, Int2F(6))
            second == FLe(c, Int2F(4)) /\ FGe(r, Int2F(4))
        IN  /\ Returned(ret)
            /\ ret.value = Ready <=> first
            /\ ret.value = ReadyWithModifications <=> (~first /\ second)
            /\ ret.value = RequiresDevelopment <=> (~first /\ ~second)
            /\ (FEq(c, Int2F(3)) /\ FEq(r, Int2F(6))) => ret.value = Ready
            /\ (FEq(c, Frac(35, 10)) /\ FEq(r, Int2F(5)))
                  => ret.value = ReadyWithModifications
            /\ (FEq(c, Frac(45, 10)) /\ FEq(r, Int2F(3)))
                  => ret.value = RequiresDevelopment

C1_Witness ==
    /\ op = "make_readiness_decision"
    /\ FEq(ArgComplexity, Int2F(3))
    /\ FEq(ArgReadiness, Int2F(6))
    /\ ret = Return(Ready)

\* C12: for a score s get_nasss_complexity_level returns Simple iff s <= 2,
\* Complicated iff 2 < s <= 3, Complex iff 3 < s <= 4 and Chaotic iff s > 4;
\* 2.0 is Simple, 2.01 Complicated, 4.0 Complex and 4.01 Chaotic.
C12_ComplexityBands ==
    (op = "get_nasss_complexity_level" /\ IsNum(arg)) =>
        /\ Returned(ret)
        /\ ret.value = "Simple" <=> FLe(arg, Int2F(2))
        /\ ret.value = "Complicated" <=> (FGt(arg, Int2F(2)) /\ FLe(arg, Int2F(3)))
        /\ ret.value = "Complex" <=> (FGt(arg, Int2F(3)) /\ FLe(arg, Int2F(4)))
        /\ ret.value = "Chaotic" <=> FGt(arg, Int2F(4))
        /\ FEq(arg, Int2F(2)) => ret.value = "Simple"
        /\ FEq(arg, Frac(201, 100)) => ret.value = "Complicated"
        /\ FEq(arg, Int2F(4)) => ret.value = "Complex"
        /\ FEq(arg, Frac(401, 100)) => ret.value = "Chaotic"

C12_Witness ==
    /\ op = "get_nasss_complexity_level"
    /\ FEq(arg, Frac(201, 100))
    /\ ret = Return("Complicated")

\* C13: for a score s get_reaim_readiness_level returns High Readiness iff
\* s >= 8, Moderate Readiness iff 6 <= s < 8, Low Readiness iff 4 <= s < 6
\* and Not Ready iff s < 4; 8.0 is High, 7.99 Moderate, 4.0 Low and 3.99 Not
\* Ready.
C13_ReadinessBands ==
    (op = "get_reaim_readiness_level" /\ IsNum(arg)) =>
        /\ Returned(ret)
        /\ ret.value = "High Readiness" <=> FGe(arg, Int2F(8))
        /\ ret.value = "Moderate Readiness"
              <=> (FGe(arg, Int2F(6)) /\ ~FGe(arg, Int2F(8)))
        /\ ret.value = "Low Readiness"
              <=> (FGe(arg, Int2F(4)) /\ ~FGe(arg, Int2F(6)))
        /\ ret.value = "Not Ready" <=> ~FGe(arg, Int2F(4))
        /\ FEq(arg, Int2F(8)) => ret.value = "High Readiness"
        /\ FEq(arg, Frac(799, 100)) => ret.value = "Moderate Readiness"
        /\ FEq(arg, Int2F(4)) => ret.value = "Low Readiness"
        /\ FEq(arg, Frac(399, 100)) => ret.value = "Not Ready"

C13_Witness ==
    /\ op = "get_reaim_readiness_level"
    /\ FEq(arg, Int2F(8))
    /\ ret = Return("High Readiness")

\* the sum of the scores that assessment_data holds for a set of names
RECURSIVE SumOver(_, _)
SumOver(names, assessment_data) ==
    IF names = {} THEN Int2F(0)
    ELSE LET n == CHOOSE x \in names : TRUE
         IN  FAdd(assessment_data[n], SumOver(names \ {n}, assessment_data))

\* the vocabulary and the label function of the scorer that was called
CalledScorer == op \in {"calculate_nasss_scores", "calculate_reaim_scores"}
ScorerVocabulary ==
    IF op = "calculate_nasss_scores" THEN nasss_domains ELSE reaim_dimensions
ScorerLabel(score) ==
    IF op = "calculate_nasss_scores"
    THEN get_nasss_complexity_level(score)
    ELSE get_reaim_readiness_level(score)
EntryLabel(entry) ==
    IF op = "calculate_nasss_scores"
    THEN entry.complexity_level
    ELSE entry.readiness_level

\* C14: calculate_nasss_scores and calculate_reaim_scores return an entry
\* for exactly the names of the vocabulary that assessment_data holds, each
\* with its score and the label of that score, and an 'overall' entry whose
\* score is the sum of those scores divided by their number (a name that is
\* not there counts neither as an entry nor as a zero) and whose label is
\* the label of that mean.
C14_OverallIsMeanOfPresent ==
    CalledScorer =>
        LET present == Range(ScorerVocabulary) \cap DOMAIN arg
            entries == ret.value.items
        IN  /\ Returned(ret)
            /\ Range(ret.value.keys) = present \cup {"overall"}
            /\ DOMAIN entries = present \cup {"overall"}
            /\ \A name \in present :
                  /\ entries[name].score = arg[name]
                  /\ EntryLabel(entries[name]) = ScorerLabel(arg[name])
            /\ present # {} =>
                  FEq(FMul(entries["overall"].score, Int2F(Cardinality(present))),
                      SumOver(present, arg))
            /\ EntryLabel(entries["overall"]) = ScorerLabel(entries["overall"].score)

C14_Witness ==
    /\ op = "calculate_nasss_scores"
    /\ DOMAIN arg = {"technology", "adopters", "cost"}
    /\ arg["technology"] = Int2F(2)
    /\ arg["adopters"] = Int2F(4)
    /\ Returned(ret)
    /\ ret.value.keys = <<"technology", "adopters", "overall">>
    /\ FEq(ret.value.items["overall"].score, Int2F(3))
    /\ ret.value.items["overall"].complexity_level = "Complicated"

\* the place of a name in a list of names
Position(names, name) == CHOOSE k \in 1..Len(names) : names[k] = name

\* the entries of an analysis that are flagged
FlaggedDomains(nasss_analysis) ==
    {n \in Range(nasss_analysis.keys) \ {"overall"} :
        FGe(nasss_analysis.items[n].score, Int2F(4))}
FlaggedDimensions(reaim_analysis) ==
    {n \in Range(reaim_analysis.keys) \ {"overall"} :
        FLe(reaim_analysis.items[n].score, Int2F(4))}

\* C15: generate_implementation_recommendations returns one string for
\* every domain other than 'overall' whose score is >= 4 and one for every
\* dimension other than 'overall' whose score is <= 4, and nothing else; the
\* strings of the domains come first, each group is in the order of its
\* vocabulary, and no string is about 'overall'.
C15_OneRecommendationPerFlag ==
    op = "generate_implementation_recommendations" =>
        LET domains == FlaggedDomains(arg[1])
            dimensions == FlaggedDimensions(arg[2])
            recs == ret.value
            nd == Cardinality(domains)
        IN  /\ Returned(ret)
            /\ Len(recs) = nd + Cardinality(dimensions)
            /\ {recs[i][2] : i \in 1..nd} = domains
            /\ {recs[i][2] : i \in (nd + 1)..Len(recs)} = dimensions
            /\ \A i \in 1..Len(recs) :
                  /\ recs[i][1] = IF i <= nd THEN "Address high complexity in"
                                             ELSE "Improve dimension"
                  /\ recs[i][2] # "overall"
            /\ \A i, j \in 1..nd :
                  i < j => Position(nasss_domains, recs[i][2])
                              < Position(nasss_domains, recs[j][2])
            /\ \A i, j \in (nd + 1)..Len(recs) :
                  i < j => Position(reaim_dimensions, recs[i][2])
                              < Position(reaim_dimensions, recs[j][2])

\* two domains at or above 4 (one of them exactly 4), an overall complexity
\* above 4 and one dimension exactly 4
C15_Witness ==
    /\ op = "generate_implementation_recommendations"
    /\ FGt(arg[1].items["overall"].score, Int2F(4))
    /\ ret = Return(<< <<"Address high complexity in", "technology">>,
                       <<"Address high complexity in", "adopters">>,
                       <<"Improve dimension", "effectiveness">> >>)
    /\ FEq(arg[1].items["technology"].score, Int2F(4))
    /\ FEq(arg[2].items["effectiveness"].score, Int2F(4))

\* the overall labels of a framework report
OverallComplexity(report) == report.nasss_assessment.items["overall"].complexity_level
OverallReadiness(report) == report.reaim_assessment.items["overall"].readiness_level

\* C25: in a framework report the decision is Requires development iff the
\* overall complexity_level is Chaotic or the overall readiness_level is Not
\* Ready, and a decision of Ready comes with a complexity_level of Simple or
\* Complicated and a readiness_level of High or Moderate Readiness.
C25_DecisionAgreesWithLabels ==
    op = "generate_framework_report" =>
        /\ Returned(ret)
        /\ ret.value.readiness_decision = RequiresDevelopment
              <=> (OverallComplexity(ret.value) = "Chaotic"
                      \/ OverallReadiness(ret.value) = "Not Ready")
        /\ ret.value.readiness_decision = Ready
              => /\ OverallComplexity(ret.value) \in {"Simple", "Complicated"}
                 /\ OverallReadiness(ret.value)
                        \in {"High Readiness", "Moderate Readiness"}

\* a report that is not ready although its complexity is not chaotic, and a
\* complexity of exactly 4 is Complex
C25_Witness ==
    /\ op = "generate_framework_report"
    /\ Returned(ret)
    /\ ret.value.readiness_decision = RequiresDevelopment
    /\ OverallComplexity(ret.value) = "Complex"
    /\ FEq(ret.value.nasss_assessment.items["overall"].score, Int2F(4))
    /\ OverallReadiness(ret.value) = "Not Ready"

\* assessment_data holds no name of the vocabulary
HoldsNoName(vocabulary, assessment_data) ==
    Range(vocabulary) \cap DOMAIN assessment_data = {}

\* C26: for assessment_data that holds no name of the vocabulary (the empty
\* mapping among them) calculate_nasss_scores and calculate_reaim_scores
\* return only an 'overall' entry whose score is NaN, labelled Chaotic and
\* Not Ready; a framework report made from two such inputs has no
\* recommendation and the decision Requires development; no call raises.
C26_NoNameGivesNaN ==
    /\ (CalledScorer /\ HoldsNoName(ScorerVocabulary, arg)) =>
          /\ Returned(ret)
          /\ ret.value.keys = <<"overall">>
          /\ DOMAIN ret.value.items = {"overall"}
          /\ ret.value.items["overall"].score = NaN
          /\ EntryLabel(ret.value.items["overall"])
                = (IF op = "calculate_nasss_scores" THEN "Chaotic" ELSE "Not Ready")
    /\ (/\ op = "generate_framework_report"
        /\ HoldsNoName(nasss_domains, arg[1])
        /\ HoldsNoName(reaim_dimensions, arg[2])) =>
          /\ Returned(ret)
          /\ ret.value.nasss_assessment.keys = <<"overall">>
          /\ ret.value.nasss_assessment.items["overall"].score = NaN
          /\ OverallComplexity(ret.value) = "Chaotic"
          /\ ret.value.reaim_assessment.keys = <<"overall">>
          /\ ret.value.reaim_assessment.items["overall"].score = NaN
          /\ OverallReadiness(ret.value) = "Not Ready"
          /\ ret.value.implementation_recommendations = <<>>
          /\ ret.value.readiness_decision = RequiresDevelopment

\* the report made from two empty mappings
C26_Witness ==
    /\ op = "generate_framework_report"
    /\ arg = <<EmptyDict, EmptyDict>>
    /\ Returned(ret)
    /\ ret.value.nasss_assessment.items["overall"].score.kind = "nan"
    /\ ret.value.readiness_decision = RequiresDevelopment

-----------------------------------------------------------------------------
(* Claims about ATLASIntegratedAnalyzer                                    *)

\* the no-data summary of the survey
IsNoDataSummary(analysis) ==
    /\ analysis.response_summary.total_experts = 0
    /\ DOMAIN analysis.response_summary.expert_types = {}
    /\ FEq(analysis.response_summary.avg_years_experience, Int2F(0))
    /\ FEq(analysis.response_summary.resource_limited_experience_pct, Int2F(0))
    /\ FEq(analysis.sus_analysis.mean_sus, Int2F(0))
    /\ FEq(analysis.sus_analysis.std_sus, Int2F(0))
    /\ analysis.sus_analysis.sus_grade = "N/A"

\* C9: analyze_expert_responses on a frame without responses returns the
\* no-data summary; a comprehensive report over no responses is returned
\* whenever its technical and clinical parts are, and holds the no-data
\* summary; draw_integrated_conclusions on a report with the no-data summary
\* returns conclusions without the usability achievement.
C9_NoExpertsIsReportable ==
    /\ (op = "analyze_expert_responses" /\ Len(arg.rows) = 0) =>
          /\ Returned(ret)
          /\ IsNoDataSummary(ret.value)
    /\ (op = "generate_comprehensive_report"
            /\ Len(Get(arg, "expert_responses", EmptyDataFrame).rows) = 0) =>
          /\ Returned(ret) <=> (Returned(TechnicalPerformance(arg))
                                    /\ Returned(ClinicalValidation(arg)))
          /\ Returned(ret) =>
                /\ IsNoDataSummary(ret.value.expert_evaluation)
                /\ UsabilityAchievement
                      \notin Range(ret.value.integrated_conclusions.key_achievements)
    /\ (op = "draw_integrated_conclusions"
            /\ "expert_evaluation" \in DOMAIN arg
            /\ arg["expert_evaluation"].response_summary.total_experts = 0) =>
          /\ Returned(ret)
          /\ UsabilityAchievement \notin Range(ret.value.key_achievements)

C9_Witness ==
    /\ op = "generate_comprehensive_report"
    /\ "expert_responses" \in DOMAIN arg
    /\ arg["expert_responses"] = EmptyDataFrame
    /\ Returned(ret)
    /\ IsNoDataSummary(ret.value.expert_evaluation)
    /\ ret.value.integrated_conclusions.key_achievements = <<>>

\* the conclusions agree with the scores of the report they were drawn from
ConclusionsFollowScores(conclusions, report) ==
    /\ PerformanceAchievement \in Range(conclusions.key_achievements)
          <=> FGe(report.technical_performance.summary.overall_score, Int2F(75))
    /\ UsabilityAchievement \in Range(conclusions.key_achievements)
          <=> FGe(report.expert_evaluation.sus_analysis.mean_sus, Int2F(70))
    /\ conclusions.readiness_indicators.framework_decision
          = report.framework_assessment.readiness_decision
    /\ Range(conclusions.key_achievements)
          \subseteq {PerformanceAchievement, UsabilityAchievement}

\* C21: the conclusions hold the technical achievement iff the overall_score
\* of the technical summary is >= 75 and the usability achievement iff
\* mean_sus is >= 70, and their framework_decision is the readiness_decision
\* of the framework report; this holds for the conclusions of a
\* comprehensive report and for draw_integrated_conclusions called on a
\* report.
C21_AchievementsByThreshold ==
    /\ (op = "generate_comprehensive_report" /\ Returned(ret)) =>
          ConclusionsFollowScores(ret.value.integrated_conclusions, ret.value)
    /\ (op = "draw_integrated_conclusions" /\ arg # EmptyDict) =>
          /\ Returned(ret)
          /\ ConclusionsFollowScores(ret.value, arg)

\* a report with an overall_score of exactly 75 and a mean_sus of exactly 70
C21_Witness ==
    /\ op = "generate_comprehensive_report"
    /\ Returned(ret)
    /\ FEq(ret.value.technical_performance.summary.overall_score, Int2F(75))
    /\ FEq(ret.value.expert_evaluation.sus_analysis.mean_sus, Int2F(70))
    /\ ret.value.integrated_conclusions.key_achievements
          = <<PerformanceAchievement, UsabilityAchievement>>
    /\ ret.value.integrated_conclusions.readiness_indicators.framework_decision
          = ReadyWithModifications

-----------------------------------------------------------------------------
(* ATLASLiveTester (src/evaluation/scripts/atlas_live_testing.py)           *)
(*                                                                          *)
(* A Python dict is a function from its keys.  The 'timestamp' of a result  *)
(* is left out, and test_results is modelled without the order in which     *)
(* its keys were inserted.  What a request, a browser command or the        *)
(* lighthouse process answers is an input of the call: a returned value or  *)
(* a raised exception.                                                      *)

\* the webdriver.Chrome of setup_webdriver
Chrome == [type |-> "WebDriver", value |-> "Chrome"]

\* d[key] = value
SetItem(d, key, value) ==
    [k \in DOMAIN d \cup {key} |-> IF k = key THEN value ELSE d[k]]

\* text.endswith(suffix)
EndsWith(text, suffix) ==
    /\ Len(text) >= Len(suffix)
    /\ SubSeq(text, Len(text) - Len(suffix) + 1, Len(text)) = suffix

\* the results dict a test method starts with
NewResults(test_name) == [test_name |-> test_name, results |-> EmptyDict]

\* a response of requests.get
Response(status_code) ==
    Return([status_code |-> status_code, elapsed |-> Frac(1, 2)])

key_pages ==
    <<"/dashboard", "/patients", "/consultation/new", "/guidelines", "/reference">>

\* the loop over key_pages: a page whose request raises is not accessible
RECURSIVE CheckKeyPages(_, _, _)
CheckKeyPages(results, pages, page_responses) ==
    IF pages = <<>> THEN results
    ELSE LET page == Head(pages)
             page_response == page_responses[page]
         IN  CheckKeyPages(
                IF Returned(page_response)
                THEN SetItem(SetItem(results, "page" \o page \o "_status",
                                     page_response.value.status_code),
                             "page" \o page \o "_accessible",
                             page_response.value.status_code = 200)
                ELSE SetItem(SetItem(results, "page" \o page \o "_error",
                                     page_response.raised),
                             "page" \o page \o "_accessible", FALSE),
                Tail(pages), page_responses)

\* The methods of the tester return the results dict and may record it: the
\* outcome of a method is the test_results it leaves and the value returned.
Recorded(self_test_results, key, results) ==
    [test_results |-> SetItem(self_test_results, key, results), value |-> results]
NotRecorded(self_test_results, results) ==
    [test_results |-> self_test_results, value |-> results]

test_application_accessibility(self_test_results, response, page_responses) ==
    LET results == NewResults("application_accessibility")
        main_page ==
            [main_page_status |-> response.value.status_code,
             main_page_load_time |-> response.value.elapsed,
             main_page_accessible |-> response.value.status_code = 200]
    IN  Recorded(self_test_results, "accessibility",
            IF Returned(response)
            THEN [results EXCEPT
                    !.results = CheckKeyPages(main_page, key_pages, page_responses)]
            ELSE SetItem(results, "error", response.raised))

WebDriverNotAvailable == "WebDriver not available"

\* a driver-dependent test that records its result without a driver too
DriverTestAlwaysRecorded(self_driver, self_test_results, test_name, key, body) ==
    LET results == NewResults(test_name)
        filled == [results EXCEPT !.results = body.value]
    IN  IF self_driver = None
        THEN Recorded(self_test_results, key,
                      SetItem(results, "error", WebDriverNotAvailable))
        ELSE Recorded(self_test_results, key,
                      IF Returned(body) THEN filled
                      ELSE SetItem(filled, "error", body.raised))

\* What the five driver-dependent tests share: without a driver the method
\* returns an error at once; otherwise the try block either fills
\* results['results'] or raises, which is caught and put in results['error'],
\* and the results are recorded.  body is the outcome of the try block: the
\* exception raised, if any, and results['results'] as the block left it.
DriverTest(self_driver, self_test_results, test_name, key, body) ==
    LET results == NewResults(test_name)
        filled == [results EXCEPT !.results = body.value]
    IN  IF self_driver = None
        THEN NotRecorded(self_test_results,
                         SetItem(results, "error", WebDriverNotAvailable))
        ELSE Recorded(self_test_results, key,
                      IF Returned(body) THEN filled
                      ELSE SetItem(filled, "error", body.raised))

\* The try block of test_pwa_functionality: only driver.get is outside the
\* three inner try blocks.
ManifestCheck(results, manifest) ==
    IF ~Returned(manifest)
    THEN SetItem(results, "manifest_error", manifest.raised)
    ELSE LET manifest_response == manifest.value
             checked == SetItem(results, "manifest_accessible",
                                manifest_response.status_code = 200)
         IN  IF manifest_response.status_code # 200 THEN checked
             ELSE IF ~Returned(manifest_response.json)
             THEN SetItem(checked, "manifest_error", manifest_response.json.raised)
             ELSE LET manifest_data == manifest_response.json.value
                  IN  SetItem(checked, "manifest_data",
                        [name |-> Get(manifest_data, "name", ""),
                         short_name |-> Get(manifest_data, "short_name", ""),
                         start_url |-> Get(manifest_data, "start_url", ""),
                         display |-> Get(manifest_data, "display", ""),
                         theme_color |-> Get(manifest_data, "theme_color", "")])
ServiceWorkerCheck(results, sw_result) ==
    IF Returned(sw_result)
    THEN SetItem(results, "service_worker", sw_result.value)
    ELSE SetItem(results, "service_worker_error", sw_result.raised)
StorageCheck(results, storage_test) ==
    IF Returned(storage_test)
    THEN SetItem(results, "storage_capabilities", storage_test.value)
    ELSE SetItem(results, "storage_test_error", storage_test.raised)
PwaBody(page) ==
    IF ~Returned(page.get) THEN page.get
    ELSE Return(StorageCheck(
                    ServiceWorkerCheck(ManifestCheck(EmptyDict, page.manifest),
                                       page.service_worker),
                    page.storage))

test_pwa_functionality(self_driver, self_test_results, page) ==
    DriverTest(self_driver, self_test_results,
               "pwa_functionality", "pwa_functionality", PwaBody(page))

\* The checks that the next three tests make on the pages are not modelled:
\* body is the outcome of their try block.
test_user_interface_responsiveness(self_driver, self_test_results, body) ==
    DriverTest(self_driver, self_test_results,
               "ui_responsiveness", "ui_responsiveness", body)

test_patient_management_workflow(self_driver, self_test_results, body) ==
    DriverTest(self_driver, self_test_results,
               "patient_management_workflow", "patient_workflow", body)

test_consultation_workflow(self_driver, self_test_results, body) ==
    DriverTest(self_driver, self_test_results,
               "consultation_workflow", "consultation_workflow", body)

\* test_offline_functionality_simulation, statement by statement.  The frame
\* of the running method holds the statement it is at, the page of the loop,
\* offline_results and the exception that its outer try block caught; the
\* browser keeps whether its network is emulated offline and the commands
\* the method gave it.
test_pages == <<"/dashboard", "/patients", "/consultation/new">>

EmulateOffline == "offline: True"
EmulateOnline == "offline: False"

Command(command, param, outcome) ==
    [command |-> command, param |-> param, raised |-> ~Returned(outcome)]

\* the frame when the try block is entered
EnterTry ==
    [pc |-> "main_page", page |-> 1, offline_results |-> EmptyDict, raised |-> ""]

\* except Exception as e: the rest of the try block is skipped
Caught(fr, outcome) == [fr EXCEPT !.pc = "record", !.raised = outcome.raised]

\* the entry of offline_results for a page
OfflinePage(outcome) ==
    IF Returned(outcome)
    THEN LET body_text == outcome.value
         IN  [loaded |-> Len(body_text) > 100,
              has_content |-> \/ ~Contains(Lower(body_text), "error")
                              \/ ~Contains(Lower(body_text), "not found")]
    ELSE [loaded |-> FALSE, error |-> outcome.raised]

\* the text of the body of a page: more than 100 characters of a cached
\* page, and the short text of an error page
CachedPage ==
    "ATLAS Clinical Decision Support. Dashboard: patients seen today, "
    \o "consultations waiting for review, guidelines saved for offline use."
ErrorPage == "Error: page not found"
\* what the browser answers to a command and to a navigation
CommandOutcomes == {Return(<<>>), Raise("WebDriverException")}
NavigationOutcomes == {Return(CachedPage), Return(ErrorPage), Raise("WebDriverException")}
\* the entries of the answers to a navigation, computed once
OfflinePages == [outcome \in NavigationOutcomes |-> OfflinePage(outcome)]

\* the loop over test_pages with the page failure not caught
NavigateUncaught(fr, outcome) ==
    IF ~Returned(outcome) THEN Caught(fr, outcome)
    ELSE [fr EXCEPT
            !.offline_results =
                SetItem(@, "offline_page_" \o test_pages[fr.page], OfflinePages[outcome]),
            !.page = @ + 1,
            !.pc = IF fr.page = Len(test_pages) THEN "emulate_online" ELSE @]

\* one round of the loop over test_pages: a page that fails is caught inside
\* the loop and recorded
Navigate(fr, outcome) ==
    [fr EXCEPT
        !.offline_results =
            SetItem(@, "offline_page_" \o test_pages[fr.page], OfflinePages[outcome]),
        !.page = @ + 1,
        !.pc = IF fr.page = Len(test_pages) THEN "emulate_online" ELSE @]

\* One statement of the try block.  outcome is what the browser answers.  A
\* command that raises has not changed the network emulation.
OfflineStep(st, outcome) ==
    LET fr == st.frame
        Issue(command, param) ==
            [st.browser EXCEPT
                !.commands = Append(@, Command(command, param, outcome))]
        Then(pc) == IF Returned(outcome) THEN [fr EXCEPT !.pc = pc]
                    ELSE Caught(fr, outcome)
    IN  CASE fr.pc = "main_page" ->
                [st EXCEPT !.browser = Issue("get", ""),
                           !.frame = Then("network_enable")]
          [] fr.pc = "network_enable" ->
                [st EXCEPT !.browser = Issue("Network.enable", ""),
                           !.frame = Then("emulate_offline")]
          [] fr.pc = "emulate_offline" ->
                [st EXCEPT
                    !.browser =
                        [Issue("Network.emulateNetworkConditions", EmulateOffline)
                            EXCEPT !.offline = IF Returned(outcome) THEN TRUE ELSE @],
                    !.frame = Then("navigate")]
          [] fr.pc = "navigate" ->
                [st EXCEPT !.browser = Issue("get", test_pages[fr.page]),
                           !.frame = Navigate(fr, outcome)]
          [] fr.pc = "emulate_online" ->
                [st EXCEPT
                    !.browser =
                        [Issue("Network.emulateNetworkConditions", EmulateOnline)
                            EXCEPT !.offline = IF Returned(outcome) THEN FALSE ELSE @],
                    !.frame = Then("network_disable")]
          [] fr.pc = "network_disable" ->
                [st EXCEPT !.browser = Issue("Network.disable", ""),
                           !.frame = Then("record")]

\* the outcome of the try block when it is left
OfflineBody(fr) ==
    IF fr.raised = "" THEN Return(fr.offline_results) ELSE Raise(fr.raised)

\* the whole try block, given what the browser answers to every statement
OutcomeAt(fr, outcomes) ==
    IF fr.pc = "navigate" THEN outcomes.navigate[fr.page] ELSE outcomes[fr.pc]
RECURSIVE RunOffline(_, _)
RunOffline(st, outcomes) ==
    IF st.frame.pc = "record" THEN st
    ELSE RunOffline(OfflineStep(st, OutcomeAt(st.frame, outcomes)), outcomes)

\* The method as one step: the outcome of DriverTest, and the browser as the
\* method leaves it.
test_offline_functionality_simulation(self_driver, self_test_results, self_browser, outcomes) ==
    LET st == IF self_driver = None
              THEN [frame |-> EnterTry, browser |-> self_browser]
              ELSE RunOffline([frame |-> EnterTry,
                               browser |-> [self_browser EXCEPT !.commands = <<>>]],
                              outcomes)
        out == DriverTest(self_driver, self_test_results,
                          "offline_functionality_simulation", "offline_functionality",
                          OfflineBody(st.frame))
    IN  [test_results |-> out.test_results, value |-> out.value,
         browser |-> st.browser]

\* run_lighthouse_audit.  process is what subprocess.run gives: an exception
\* or the return code, the stderr and the JSON file the process wrote.
CliNotFound == "Lighthouse CLI not found. Please install: npm install -g lighthouse"
AuditTimedOut == "Lighthouse audit timed out"

\* d.get(name, {}).get(field, 0) * factor: None * 100 raises TypeError
ScoreOf(d, name, field, factor) ==
    LET score == Get(Get(d, name, EmptyDict), field, Int2F(0))
    IN  IF score = None THEN Raise("TypeError") ELSE Return(FMul(score, factor))

LighthouseResults(lighthouse_data) ==
    LET categories == Get(lighthouse_data, "categories", EmptyDict)
        audits == Get(lighthouse_data, "audits", EmptyDict)
        Thousandth == Frac(1, 1000)
        values ==
            [pwa_score |-> ScoreOf(categories, "pwa", "score", Int2F(100)),
             performance_score |->
                ScoreOf(categories, "performance", "score", Int2F(100)),
             accessibility_score |->
                ScoreOf(categories, "accessibility", "score", Int2F(100)),
             best_practices_score |->
                ScoreOf(categories, "best-practices", "score", Int2F(100)),
             first_contentful_paint |->
                ScoreOf(audits, "first-contentful-paint", "numericValue", Thousandth),
             time_to_interactive |->
                ScoreOf(audits, "interactive", "numericValue", Thousandth),
             cumulative_layout_shift |->
                ScoreOf(audits, "cumulative-layout-shift", "numericValue", Int2F(1)),
             largest_contentful_paint |->
                ScoreOf(audits, "largest-contentful-paint", "numericValue",
                        Thousandth)]
    IN  IF \E k \in DOMAIN values : ~Returned(values[k])
        THEN Raise("TypeError")
        ELSE Return([k \in DOMAIN values |-> values[k].value])

run_lighthouse_audit(self_test_results, process) ==
    LET results == NewResults("lighthouse_audit")
        Failed(message) == SetItem(results, "error", message)
    IN  Recorded(self_test_results, "lighthouse_audit",
            IF process.raised = "FileNotFoundError" THEN Failed(CliNotFound)
            ELSE IF process.raised = "TimeoutExpired" THEN Failed(AuditTimedOut)
            ELSE IF ~Returned(process) THEN Failed(process.raised)
            ELSE IF process.value.returncode # 0
            THEN Failed("Lighthouse failed: " \o process.value.stderr)
            ELSE IF ~Returned(process.value.lighthouse_data)
            THEN Failed(process.value.lighthouse_data.raised)
            ELSE IF ~Returned(LighthouseResults(process.value.lighthouse_data.value))
            THEN Failed(LighthouseResults(process.value.lighthouse_data.value).raised)
            ELSE SetItem([results EXCEPT
                            !.results =
                                LighthouseResults(
                                    process.value.lighthouse_data.value).value],
                         "success", TRUE))

\* calculate_test_summary.  The loop over test_results.items() is taken in
\* the order in which main() runs the tests.
test_keys ==
    <<"accessibility", "pwa_functionality", "ui_responsiveness", "patient_workflow",
      "consultation_workflow", "offline_functionality", "lighthouse_audit">>

\* True counts as 1 in sum()
BoolInt(b) == IF b THEN 1 ELSE 0

\* the health score a result adds to health_scores: a list of one or none
HealthScore(test_name, test_data) ==
    LET inner == test_data.results
    IN  IF test_name = "accessibility"
        THEN LET page_keys == {k \in DOMAIN inner : EndsWith(k, "_accessible")}
                 accessible_pages == Cardinality({k \in page_keys : inner[k]})
                 total_pages == Cardinality(page_keys)
             IN  IF total_pages > 0
                 THEN <<FMul(FDiv(Int2F(accessible_pages), Int2F(total_pages)),
                             Int2F(100))>>
                 ELSE <<>>
        ELSE IF test_name = "lighthouse_audit" /\ "results" \in DOMAIN test_data
        THEN <<NpMean(<<Get(inner, "pwa_score", Int2F(0)),
                        Get(inner, "performance_score", Int2F(0)),
                        Get(inner, "accessibility_score", Int2F(0))>>)>>
        ELSE IF test_name = "pwa_functionality"
        THEN LET pwa_checks ==
                    <<Get(inner, "manifest_accessible", FALSE),
                      Get(Get(inner, "service_worker", EmptyDict), "active", FALSE),
                      Get(Get(inner, "storage_capabilities", EmptyDict),
                          "indexedDB", FALSE)>>
                 passed == BoolInt(pwa_checks[1]) + BoolInt(pwa_checks[2])
                              + BoolInt(pwa_checks[3])
             IN  <<FMul(FDiv(Int2F(passed), Int2F(Len(pwa_checks))), Int2F(100))>>
        ELSE <<>>

RECURSIVE SummaryLoop(_, _, _)
SummaryLoop(summary, names, self_test_results) ==
    IF names = <<>> THEN summary
    ELSE LET test_name == Head(names)
             test_data == self_test_results[test_name]
         IN  SummaryLoop(
                IF "error" \in DOMAIN test_data
                THEN [summary EXCEPT !.tests_with_errors = @ + 1]
                ELSE [summary EXCEPT
                        !.successful_tests = @ + 1,
                        !.health_scores = @ \o HealthScore(test_name, test_data)],
                Tail(names), self_test_results)

IsRecorded(self_test_results, key) == key \in DOMAIN self_test_results
RecordedKeys(self_test_results) ==
    SelectSeq(test_keys, LAMBDA key : IsRecorded(self_test_results, key))

\* calculate_test_summary that takes the mean of health_scores also when the
\* list is empty
calculate_test_summary_unguarded(self_test_results) ==
    LET done == SummaryLoop([successful_tests |-> 0, tests_with_errors |-> 0,
                             health_scores |-> <<>>],
                            RecordedKeys(self_test_results), self_test_results)
        total_tests == Cardinality(DOMAIN self_test_results)
    IN  [total_tests |-> total_tests,
         successful_tests |-> done.successful_tests,
         failed_tests |-> total_tests - done.successful_tests - done.tests_with_errors,
         tests_with_errors |-> done.tests_with_errors,
         overall_health_score |-> NpMean(done.health_scores)]

calculate_test_summary(self_test_results) ==
    LET done == SummaryLoop([successful_tests |-> 0, tests_with_errors |-> 0,
                             health_scores |-> <<>>],
                            RecordedKeys(self_test_results), self_test_results)
        total_tests == Cardinality(DOMAIN self_test_results)
    IN  [total_tests |-> total_tests,
         successful_tests |-> done.successful_tests,
         failed_tests |-> total_tests - done.successful_tests - done.tests_with_errors,
         tests_with_errors |-> done.tests_with_errors,
         overall_health_score |->
            IF done.health_scores # <<>> THEN NpMean(done.health_scores)
            ELSE Int2F(0)]

\* generate_test_report without its test_timestamp; tests_completed is
\* modelled as the set of the keys of test_results
base_url == "https://atlas-clinical-git-main-lambdabypis-projects.vercel.app"
generate_test_report(self_test_results) ==
    [atlas_testing_report |->
        [application_url |-> base_url,
         tests_completed |-> DOMAIN self_test_results,
         summary |-> calculate_test_summary(self_test_results)],
     detailed_results |-> self_test_results]

\* What the application answers: the request of the main page raises; every
\* page answers 200; the main page answers 500, a key page answers 404 and
\* the request of another raises.
ApplicationAnswers ==
    {[response |-> Raise("ConnectionError"),
      page_responses |-> [page \in Range(key_pages) |-> Response(200)]],
     [response |-> Response(200),
      page_responses |-> [page \in Range(key_pages) |-> Response(200)]],
     [response |-> Response(500),
      page_responses |->
        [page \in Range(key_pages) |->
            IF page = "/patients" THEN Response(404)
            ELSE IF page = "/reference" THEN Raise("ReadTimeout")
            ELSE Response(200)]]}

\* The main page seen by test_pwa_functionality: it cannot be loaded; it has
\* a manifest and storage and its service worker script fails; it has an
\* active service worker and nothing else.
StorageTests == [localStorage |-> TRUE, sessionStorage |-> TRUE, indexedDB |-> TRUE]
ManifestFile ==
    Return([status_code |-> 200,
            json |-> Return([name |-> "ATLAS", display |-> "standalone"])])
PwaPages ==
    {[get |-> Raise("WebDriverException"), manifest |-> ManifestFile,
      service_worker |-> Raise("JavascriptException"),
      storage |-> Return(StorageTests)],
     [get |-> Return(<<>>), manifest |-> ManifestFile,
      service_worker |-> Raise("JavascriptException"),
      storage |-> Return(StorageTests)],
     [get |-> Return(<<>>), manifest |-> Raise("NoSuchElementException"),
      service_worker |->
        Return([scope |-> base_url, active |-> TRUE, waiting |-> FALSE,
                installing |-> FALSE]),
      storage |-> Raise("JavascriptException")]}

\* the outcomes of the try blocks of the three workflow tests
UiBodies ==
    {Raise("WebDriverException"),
     Return([device \in {"mobile", "tablet", "desktop"} |->
                [navigation_visible |-> TRUE, main_content_visible |-> TRUE,
                 performance_error |-> "JavascriptException"]])}
PatientBodies ==
    {Raise("TimeoutException"),
     Return([patients_page_loaded |-> TRUE, new_patient_form_loaded |-> TRUE,
             form_elements_count |-> 6])}
ConsultationBodies ==
    {Raise("TimeoutException"),
     Return([consultation_form_loaded |-> TRUE, input_elements |-> 4,
             textarea_elements |-> 2, select_elements |-> 1,
             ai_features_present |-> FALSE,
             form_selection_error |-> "NoSuchElementException"])}


\* the answers to a whole offline simulation
Answers(main_page, emulate_offline, navigate, emulate_online) ==
    [main_page |-> main_page, network_enable |-> Return(<<>>),
     emulate_offline |-> emulate_offline, navigate |-> navigate,
     emulate_online |-> emulate_online, network_disable |-> Return(<<>>)]
OfflineAnswers ==
    {Answers(Return(<<>>), Return(<<>>),
             <<Return(CachedPage), Raise("WebDriverException"), Return(ErrorPage)>>,
             Return(<<>>)),
     Answers(Return(<<>>), Return(<<>>),
             <<Raise("WebDriverException"), Raise("WebDriverException"),
               Raise("WebDriverException")>>,
             Raise("WebDriverException"))}

\* What the lighthouse process gives: it is not installed; its report has
\* no pwa category and half the performance score; its report has a score
\* that is null.
LighthouseReport(categories) ==
    Return([returncode |-> 0, stderr |-> "",
            lighthouse_data |->
                Return([categories |-> categories,
                        audits |-> [interactive |-> [numericValue |-> Int2F(2400)]]])])
Processes ==
    {Raise("FileNotFoundError"),
     LighthouseReport([c \in {"performance", "accessibility"} |->
                          [score |-> IF c = "performance" THEN Frac(1, 2)
                                     ELSE Int2F(1)]]),
     LighthouseReport([c \in {"pwa", "performance"} |->
                          [score |-> IF c = "pwa" THEN None ELSE Int2F(1)]])}

-----------------------------------------------------------------------------
(* The calls of an ATLASLiveTester                                          *)

\* The tester after construction: setup_webdriver has made a driver or has
\* set it to None, and no test is recorded.
InitLive ==
    /\ op = "idle"
    /\ arg = <<>>
    /\ ret = Return(<<>>)
    /\ driver \in {None, Chrome}
    /\ test_results = <<>>
    /\ browser = FreshBrowser
    /\ frame = NoFrame
    /\ analyzers = <<>>
    /\ runs = <<>>

\* a method returns: what it recorded and what it returned
Returns(method, out) ==
    /\ op' = method
    /\ arg' = <<>>
    /\ ret' = Return(out.value)
    /\ test_results' = out.test_results

TestApplicationAccessibility ==
    /\ frame = NoFrame
    /\ \E answers \in ApplicationAnswers :
        Returns("test_application_accessibility",
                test_application_accessibility(test_results, answers.response,
                                               answers.page_responses))
    /\ UNCHANGED <<driver, browser, frame, run_vars>>

TestPwaFunctionality ==
    /\ frame = NoFrame
    /\ \E page \in PwaPages :
        Returns("test_pwa_functionality",
                test_pwa_functionality(driver, test_results, page))
    /\ UNCHANGED <<driver, browser, frame, run_vars>>

TestUserInterfaceResponsiveness ==
    /\ frame = NoFrame
    /\ \E body \in UiBodies :
        Returns("test_user_interface_responsiveness",
                test_user_interface_responsiveness(driver, test_results, body))
    /\ UNCHANGED <<driver, browser, frame, run_vars>>

TestPatientManagementWorkflow ==
    /\ frame = NoFrame
    /\ \E body \in PatientBodies :
        Returns("test_patient_management_workflow",
                test_patient_management_workflow(driver, test_results, body))
    /\ UNCHANGED <<driver, browser, frame, run_vars>>

TestConsultationWorkflow ==
    /\ frame = NoFrame
    /\ \E body \in ConsultationBodies :
        Returns("test_consultation_workflow",
                test_consultation_workflow(driver, test_results, body))
    /\ UNCHANGED <<driver, browser, frame, run_vars>>

TestOfflineFunctionalitySimulation ==
    /\ frame = NoFrame
    /\ \E outcomes \in OfflineAnswers :
        LET out == test_offline_functionality_simulation(driver, test_results,
                                                         browser, outcomes)
        IN  /\ Returns("test_offline_functionality_simulation", out)
            /\ browser' = out.browser
    /\ UNCHANGED <<driver, frame, run_vars>>

RunLighthouseAudit ==
    /\ frame = NoFrame
    /\ \E process \in Processes :
        Returns("run_lighthouse_audit", run_lighthouse_audit(test_results, process))
    /\ UNCHANGED <<driver, browser, frame, run_vars>>

CalculateTestSummary ==
    /\ frame = NoFrame
    /\ op' = "calculate_test_summary"
    /\ arg' = <<>>
    /\ ret' = Return(calculate_test_summary(test_results))
    /\ UNCHANGED <<tester_vars, run_vars>>

GenerateTestReport ==
    /\ frame = NoFrame
    /\ op' = "generate_test_report"
    /\ arg' = <<>>
    /\ ret' = Return(generate_test_report(test_results))
    /\ UNCHANGED <<tester_vars, run_vars>>

NextLive ==
    \/ TestApplicationAccessibility
    \/ TestPwaFunctionality
    \/ TestUserInterfaceResponsiveness
    \/ TestPatientManagementWorkflow
    \/ TestConsultationWorkflow
    \/ TestOfflineFunctionalitySimulation
    \/ RunLighthouseAudit
    \/ CalculateTestSummary
    \/ GenerateTestReport

SpecLive == InitLive /\ [][NextLive]_vars

\* test_offline_functionality_simulation statement by statement, called any
\* number of times
CallOfflineSimulation ==
    /\ frame = NoFrame
    /\ IF driver = None
       THEN /\ Returns("test_offline_functionality_simulation",
                       DriverTest(driver, test_results,
                                  "offline_functionality_simulation",
                                  "offline_functionality", OfflineBody(EnterTry)))
            /\ UNCHANGED <<browser, frame>>
       ELSE /\ op' = "test_offline_functionality_simulation"
            /\ arg' = <<>>
            /\ ret' = Return(<<>>)
            /\ frame' = EnterTry
            /\ browser' = [browser EXCEPT !.commands = <<>>]
            /\ UNCHANGED test_results
    /\ UNCHANGED <<driver, run_vars>>

\* the running method executes its next statement
Executes(outcome) ==
    LET st == OfflineStep([frame |-> frame, browser |-> browser], outcome)
    IN  /\ frame' = st.frame
        /\ browser' = st.browser
        /\ UNCHANGED <<op, arg, ret, driver, test_results, run_vars>>

LoadMainPage ==
    /\ frame.pc = "main_page"
    /\ \E outcome \in CommandOutcomes : Executes(outcome)

NetworkEnable ==
    /\ frame.pc = "network_enable"
    /\ \E outcome \in CommandOutcomes : Executes(outcome)

SwitchOffline ==
    /\ frame.pc = "emulate_offline"
    /\ \E outcome \in CommandOutcomes : Executes(outcome)

NavigateOffline ==
    /\ frame.pc = "navigate"
    /\ \E outcome \in NavigationOutcomes : Executes(outcome)

SwitchOnline ==
    /\ frame.pc = "emulate_online"
    /\ \E outcome \in CommandOutcomes : Executes(outcome)

NetworkDisable ==
    /\ frame.pc = "network_disable"
    /\ \E outcome \in CommandOutcomes : Executes(outcome)

RecordOfflineResults ==
    /\ frame.pc = "record"
    /\ Returns("test_offline_functionality_simulation",
               DriverTest(driver, test_results, "offline_functionality_simulation",
                          "offline_functionality", OfflineBody(frame)))
    /\ frame' = NoFrame
    /\ UNCHANGED <<driver, browser, run_vars>>

NextOffline ==
    \/ CallOfflineSimulation
    \/ LoadMainPage
    \/ NetworkEnable
    \/ SwitchOffline
    \/ NavigateOffline
    \/ SwitchOnline
    \/ NetworkDisable
    \/ RecordOfflineResults

SpecOffline == InitLive /\ [][NextOffline]_vars

-----------------------------------------------------------------------------
(* Claims about ATLASLiveTester                                             *)

HasError(results) == "error" \in DOMAIN results

\* the tests whose results add a health score
HealthTests == {"accessibility", "lighthouse_audit", "pwa_functionality"}

\* the flags of the six pages that test_application_accessibility requests
AccessibleFlags ==
    {"main_page_accessible"}
        \cup {"page" \o page \o "_accessible" : page \in Range(key_pages)}

\* the health score of a result without error: the share of the pages that
\* are accessible, the mean of three lighthouse scores, the share of the
\* three PWA checks that passed
ResultHealth(test_name, results) ==
    LET inner == results.results
        Passed(check, flag) ==
            check \in DOMAIN inner /\ flag \in DOMAIN inner[check] /\ inner[check][flag]
    IN  CASE test_name = "accessibility" ->
                Frac(100 * Cardinality({k \in AccessibleFlags : inner[k]}),
                     Cardinality(AccessibleFlags))
          [] test_name = "lighthouse_audit" ->
                FDiv(FAdd(FAdd(inner.pwa_score, inner.performance_score),
                          inner.accessibility_score), Int2F(3))
          [] test_name = "pwa_functionality" ->
                Frac(100 * (BoolInt("manifest_accessible" \in DOMAIN inner
                                        /\ inner.manifest_accessible)
                            + BoolInt(Passed("service_worker", "active"))
                            + BoolInt(Passed("storage_capabilities", "indexedDB"))),
                     3)

RECURSIVE SumHealth(_, _)
SumHealth(names, recorded) ==
    IF names = {} THEN Int2F(0)
    ELSE LET n == CHOOSE x \in names : TRUE
         IN  FAdd(ResultHealth(n, recorded[n]), SumHealth(names \ {n}, recorded))

SummaryAgrees(summary, recorded) ==
    LET with_error == {n \in DOMAIN recorded : HasError(recorded[n])}
        contributing == (DOMAIN recorded \cap HealthTests) \ with_error
    IN  /\ summary.total_tests = Cardinality(DOMAIN recorded)
        /\ summary.total_tests = summary.successful_tests + summary.tests_with_errors
        /\ summary.tests_with_errors = Cardinality(with_error)
        /\ summary.successful_tests = Cardinality(DOMAIN recorded \ with_error)
        /\ summary.failed_tests = 0
        /\ IF contributing = {}
           THEN summary.overall_health_score = Int2F(0)
           ELSE FEq(FMul(summary.overall_health_score,
                         Int2F(Cardinality(contributing))),
                    SumHealth(contributing, recorded))

\* C28: after any sequence of test operations calculate_test_summary, alone
\* and in generate_test_report, gives total_tests = the number of recorded
\* tests = successful_tests + tests_with_errors, counts in tests_with_errors
\* exactly the results that have an 'error' key, gives failed_tests = 0, and
\* gives as overall_health_score the mean of the health scores of the
\* accessibility, lighthouse_audit and pwa_functionality results that have no
\* error, 0 when there is none.
C28_SummaryCountsAndHealth ==
    /\ op = "calculate_test_summary" =>
          Returned(ret) /\ SummaryAgrees(ret.value, test_results)
    /\ op = "generate_test_report" =>
          /\ Returned(ret)
          /\ ret.value.detailed_results = test_results
          /\ SummaryAgrees(ret.value.atlas_testing_report.summary, test_results)

\* four tests are recorded, one of them with an error: health scores of
\* 100, 50 and 200/3 give 650/9
C28_Witness ==
    /\ op = "calculate_test_summary"
    /\ DOMAIN test_results
          = {"accessibility", "lighthouse_audit", "pwa_functionality",
             "ui_responsiveness"}
    /\ HasError(test_results["ui_responsiveness"])
    /\ ret.value.total_tests = 4
    /\ ret.value.successful_tests = 3
    /\ ret.value.tests_with_errors = 1
    /\ ret.value.failed_tests = 0
    /\ FEq(ret.value.overall_health_score, Frac(650, 9))

\* the methods that need the driver
DriverMethods ==
    {"test_pwa_functionality", "test_user_interface_responsiveness",
     "test_patient_management_workflow", "test_consultation_workflow",
     "test_offline_functionality_simulation"}
DriverKeys ==
    {"pwa_functionality", "ui_responsiveness", "patient_workflow",
     "consultation_workflow", "offline_functionality"}

\* C29: when driver is None, a call of one of the five driver-dependent tests
\* returns a result with error 'WebDriver not available' and leaves
\* test_results as it was, so that a report names none of these tests and its
\* summary counts none of them; a call of test_application_accessibility or
\* run_lighthouse_audit always records the result it returns, with or
\* without an error.
C29_NoDriverNothingRecorded ==
    [][/\ (driver = None /\ op' \in DriverMethods) =>
            /\ Returned(ret')
            /\ HasError(ret'.value)
            /\ ret'.value.error = WebDriverNotAvailable
            /\ test_results' = test_results
       /\ op' = "test_application_accessibility" =>
            /\ IsRecorded(test_results', "accessibility")
            /\ test_results'["accessibility"] = ret'.value
       /\ op' = "run_lighthouse_audit" =>
            /\ IsRecorded(test_results', "lighthouse_audit")
            /\ test_results'["lighthouse_audit"] = ret'.value
       /\ (driver = None /\ op' = "generate_test_report") =>
            LET report == ret'.value.atlas_testing_report
            IN  /\ report.tests_completed \cap DriverKeys = {}
                /\ report.tests_completed = DOMAIN test_results
                /\ report.summary.total_tests = Cardinality(report.tests_completed)
                /\ report.summary.tests_with_errors
                      = Cardinality({n \in report.tests_completed :
                                        HasError(test_results[n])})
      ]_vars

\* without a driver test_pwa_functionality has returned its error and the
\* two tests recorded before are all that is recorded
C29_Witness ==
    /\ driver = None
    /\ op = "test_pwa_functionality"
    /\ ret.value.error = WebDriverNotAvailable
    /\ DOMAIN test_results = {"accessibility", "lighthouse_audit"}
    /\ HasError(test_results["lighthouse_audit"])
    /\ ~HasError(test_results["accessibility"])

\* the commands that the running or the last offline simulation gave
SwitchedOfflineAt(i) ==
    /\ browser.commands[i].command = "Network.emulateNetworkConditions"
    /\ browser.commands[i].param = EmulateOffline
    /\ ~browser.commands[i].raised
RestoreIssuedAt(j) ==
    /\ j \in DOMAIN browser.commands
    /\ browser.commands[j].command = "Network.emulateNetworkConditions"
    /\ browser.commands[j].param = EmulateOnline
NavigatedAt(i, page) ==
    /\ i \in DOMAIN browser.commands
    /\ browser.commands[i].command = "get"
    /\ browser.commands[i].param = page

\* C30: once test_offline_functionality_simulation has switched the browser
\* to offline emulation and has left the loop over the pages, it has
\* navigated to the three pages and has then given the command that
\* switches the emulation back, whichever of the navigations failed, and the
\* browser is offline only if that command raised; so it is when the method
\* has returned, and a navigation that failed is then recorded with
\* loaded = False.
C30_RestoreAfterOffline ==
    \A i \in DOMAIN browser.commands :
        (SwitchedOfflineAt(i) /\ frame.pc \notin {"navigate", "emulate_online"}) =>
            LET restore == i + Len(test_pages) + 1
            IN  /\ \A k \in DOMAIN test_pages : NavigatedAt(i + k, test_pages[k])
                /\ RestoreIssuedAt(restore)
                /\ browser.offline => browser.commands[restore].raised
                /\ (frame = NoFrame /\ ~HasError(ret.value)) =>
                      /\ DOMAIN ret.value.results
                            = {"offline_page_" \o test_pages[k] :
                                  k \in DOMAIN test_pages}
                      /\ \A k \in DOMAIN test_pages :
                            browser.commands[i + k].raised =>
                                ~ret.value.results[
                                      "offline_page_" \o test_pages[k]].loaded

\* the first and the last navigation failed, the emulation was switched
\* back and the method returned the three pages
C30_Witness ==
    /\ frame = NoFrame
    /\ op = "test_offline_functionality_simulation"
    /\ Len(browser.commands) = 8
    /\ SwitchedOfflineAt(3)
    /\ browser.commands[4].raised
    /\ ~browser.commands[5].raised
    /\ browser.commands[6].raised
    /\ RestoreIssuedAt(7)
    /\ ~browser.offline
    /\ ~HasError(ret.value)
    /\ ~ret.value.results["offline_page_/dashboard"].loaded
    /\ ret.value.results["offline_page_/patients"].loaded
    /\ ~ret.value.results["offline_page_/consultation/new"].loaded

-----------------------------------------------------------------------------
(* Evaluation runs                                                          *)
(*                                                                          *)
(* A run gives its records to the scorers one call after the other: the two *)
(* scorers that no report calls, then the calls of                          *)
(* generate_comprehensive_report in the order of its code.  Two runs take   *)
(* their steps in any order.  `analyzers` holds the fields of the analyzer  *)
(* instances, which the runs share or not; `runs` holds for every run the   *)
(* records it was given, the same records as the scorers left them, the     *)
(* results of the calls made so far and the position of the run.            *)

Runs == {"first", "second"}

\* the fields that ATLASPerformanceAnalyzer.__init__ sets
NewAnalyzer == [app_url |-> app_url, performance_data |-> EmptyDict]

\* a scorer that keeps the record it was given for its result
InputAfterScoring(scorer, input) ==
    IF scorer = "calculate_nasss_scores"
    THEN SetItem(input, "overall", Int2F(0))
    ELSE input

\* The record passed to a scorer after the call: no scorer assigns to an
\* item or a column of its parameter.
InputAfter(scorer, input) ==
    input

\* a scorer that notes in its instance that it ran
AnalyzerAfterNoting(analyzer, scorer) ==
    [analyzer EXCEPT !.app_url = scorer]

\* The instance after a call of one of its methods: no method assigns to a
\* field of self.
AnalyzerAfter(analyzer, scorer) ==
    analyzer

\* the calls of a run, in their order
RunSteps ==
    <<"calculate_clinical_metrics", "perform_thematic_analysis",
      "evaluation_summary", "analyze_performance_metrics", "analyze_who_alignment",
      "analyze_expert_responses", "calculate_nasss_scores", "calculate_reaim_scores",
      "generate_implementation_recommendations", "make_readiness_decision",
      "draw_integrated_conclusions">>
StepAfter(step) ==
    LET k == CHOOSE i \in DOMAIN RunSteps : RunSteps[i] = step
    IN  IF k = Len(RunSteps) THEN "done" ELSE RunSteps[k + 1]

\* all_data after the record under key was passed to a scorer; a key that is
\* not there makes the caller pass a new empty record
AllDataAfter(scorer, key, all_data) ==
    IF key \in DOMAIN all_data
    THEN [all_data EXCEPT ![key] = InputAfter(scorer, @)]
    ELSE all_data

\* the run after a call that returned or raised: an exception ends the run
AfterCall(run, scorer, outcome) ==
    IF Returned(outcome)
    THEN [run EXCEPT !.scored = SetItem(@, scorer, outcome.value),
                     !.pc = StepAfter(scorer)]
    ELSE [run EXCEPT !.pc = "done", !.outcome = outcome]

\* the report dict of generate_comprehensive_report from the results of the
\* calls
ReportOf(scored) ==
    [evaluation_summary |-> scored["evaluation_summary"],
     technical_performance |-> scored["analyze_performance_metrics"],
     clinical_validation |-> scored["analyze_who_alignment"],
     expert_evaluation |-> scored["analyze_expert_responses"],
     framework_assessment |->
        [nasss_assessment |-> scored["calculate_nasss_scores"],
         reaim_assessment |-> scored["calculate_reaim_scores"],
         implementation_recommendations |->
            scored["generate_implementation_recommendations"],
         readiness_decision |-> scored["make_readiness_decision"]]]

\* The records of a run: those of main_atlas_evaluation with a clinical
\* sample of one case per category; a run with other records; a run without
\* clinical results, whose report raises KeyError.
RunRecords ==
    {[results_df |->
        <<[who_aligned |-> "True", expected_alignment |-> "True"],
          [who_aligned |-> "False", expected_alignment |-> "True"]>>,
      comments_data |-> <<Str(TwoThemes), None>>,
      all_data |->
        [performance_metrics |->
            [pwa_score |-> Int2F(85), performance_score |-> Int2F(78),
             first_contentful_paint |-> Frac(18, 10),
             time_to_interactive |-> Frac(24, 10),
             offline_success_rate |-> Int2F(92)],
         clinical_results |->
            [i \in 1..4 |->
                [category |-> scenario_categories[i], who_aligned |-> "True",
                 appropriate_recommendation |-> "True", resource_aware |-> "False"]],
         expert_responses |-> ExpertSample(ExpertColumns, Int2F(70)),
         nasss_data |->
            [technology |-> Frac(25, 10), value_proposition |-> Int2F(3),
             adopters |-> Frac(35, 10), organization |-> Int2F(4),
             wider_system |-> Int2F(3), embedding |-> Frac(35, 10),
             adaptation |-> Int2F(2)],
         reaim_data |->
            [reach |-> Int2F(7), effectiveness |-> Frac(65, 10),
             adoption |-> Int2F(5), implementation |-> Frac(45, 10),
             maintenance |-> Int2F(6)]]],
     [results_df |->
        <<[who_aligned |-> "True", expected_alignment |-> "True"],
          [who_aligned |-> "True", expected_alignment |-> "False"]>>,
      comments_data |-> <<Str(TwoKeywords)>>,
      all_data |->
        [performance_metrics |->
            [pwa_score |-> Int2F(95), time_to_interactive |-> Int2F(4)],
         expert_responses |-> ExpertSample(ExpertColumns, Int2F(50)),
         clinical_results |->
            [i \in 1..4 |->
                [category |-> scenario_categories[i], who_aligned |-> "False",
                 appropriate_recommendation |-> "True", resource_aware |-> "True"]],
         nasss_data |-> [technology |-> Int2F(2)],
         reaim_data |-> [reach |-> Int2F(8)]]],
     [results_df |-> <<[who_aligned |-> "True", expected_alignment |-> "True"]>>,
      comments_data |-> <<>>,
      all_data |->
        [performance_metrics |->
            [pwa_score |-> Int2F(90), performance_score |-> Int2F(80)]]]}

\* a run before its first call
NewRun(analyzer, records) ==
    [analyzer |-> analyzer, given |-> records, records |-> records,
     scored |-> EmptyDict, pc |-> RunSteps[1], outcome |-> Return(<<>>)]

\* Two runs have been given their records; they use one ATLASIntegratedAnalyzer
\* or one each.
InitRuns ==
    /\ op = "idle"
    /\ arg = <<>>
    /\ ret = Return(<<>>)
    /\ driver = None
    /\ test_results = <<>>
    /\ browser = FreshBrowser
    /\ frame = NoFrame
    /\ \E shared \in BOOLEAN :
        /\ analyzers = [a \in (IF shared THEN {"first"} ELSE Runs) |-> NewAnalyzer]
        /\ \E records \in [Runs -> RunRecords] :
            runs = [r \in Runs |->
                        NewRun(IF shared THEN "first" ELSE r, records[r])]

\* run r calls a scorer of its analyzer: the run after the call, and the
\* instance after the call
Calls(r, scorer, after) ==
    /\ runs' = [runs EXCEPT ![r] = after]
    /\ analyzers' = [analyzers EXCEPT ![runs[r].analyzer] = AnalyzerAfter(@, scorer)]
    /\ UNCHANGED <<op, arg, ret, tester_vars>>

RunCalculateClinicalMetrics ==
    \E r \in Runs :
        LET run == runs[r]
            scorer == "calculate_clinical_metrics"
        IN  /\ run.pc = scorer
            /\ Calls(r, scorer,
                  AfterCall([run EXCEPT !.records.results_df = InputAfter(scorer, @)],
                            scorer, calculate_clinical_metrics(run.records.results_df)))

RunPerformThematicAnalysis ==
    \E r \in Runs :
        LET run == runs[r]
            scorer == "perform_thematic_analysis"
        IN  /\ run.pc = scorer
            /\ Calls(r, scorer,
                  AfterCall([run EXCEPT !.records.comments_data = InputAfter(scorer, @)],
                            scorer, perform_thematic_analysis(run.records.comments_data)))

\* the report dict is begun: evaluation_summary reads the app_url of the
\* performance analyzer
RunEvaluationSummary ==
    \E r \in Runs :
        LET run == runs[r]
            scorer == "evaluation_summary"
        IN  /\ run.pc = scorer
            /\ Calls(r, scorer,
                  AfterCall(run, scorer,
                            Return([app_url |-> analyzers[run.analyzer].app_url,
                                    evaluation_components |->
                                        <<"Technical Performance",
                                          "Clinical Validation", "Expert Evaluation",
                                          "Framework Assessment">>])))

RunAnalyzePerformanceMetrics ==
    \E r \in Runs :
        LET run == runs[r]
            scorer == "analyze_performance_metrics"
        IN  /\ run.pc = scorer
            /\ Calls(r, scorer,
                  AfterCall([run EXCEPT
                                !.records.all_data =
                                    AllDataAfter(scorer, "performance_metrics", @)],
                            scorer, TechnicalPerformance(run.records.all_data)))

RunAnalyzeWhoAlignment ==
    \E r \in Runs :
        LET run == runs[r]
            scorer == "analyze_who_alignment"
        IN  /\ run.pc = scorer
            /\ Calls(r, scorer,
                  AfterCall([run EXCEPT
                                !.records.all_data =
                                    AllDataAfter(scorer, "clinical_results", @)],
                            scorer, ClinicalValidation(run.records.all_data)))

RunAnalyzeExpertResponses ==
    \E r \in Runs :
        LET run == runs[r]
            scorer == "analyze_expert_responses"
        IN  /\ run.pc = scorer
            /\ Calls(r, scorer,
                  AfterCall([run EXCEPT
                                !.records.all_data =
                                    AllDataAfter(scorer, "expert_responses", @)],
                            scorer, ExpertEvaluation(run.records.all_data)))

RunCalculateNasssScores ==
    \E r \in Runs :
        LET run == runs[r]
            scorer == "calculate_nasss_scores"
        IN  /\ run.pc = scorer
            /\ Calls(r, scorer,
                  AfterCall([run EXCEPT
                                !.records.all_data =
                                    AllDataAfter(scorer, "nasss_data", @)],
                            scorer,
                            Return(calculate_nasss_scores(
                                Get(run.records.all_data, "nasss_data", EmptyDict)))))

RunCalculateReaimScores ==
    \E r \in Runs :
        LET run == runs[r]
            scorer == "calculate_reaim_scores"
        IN  /\ run.pc = scorer
            /\ Calls(r, scorer,
                  AfterCall([run EXCEPT
                                !.records.all_data =
                                    AllDataAfter(scorer, "reaim_data", @)],
                            scorer,
                            Return(calculate_reaim_scores(
                                Get(run.records.all_data, "reaim_data", EmptyDict)))))

\* the two analyses are passed on to the next two scorers
AnalysesAfter(scorer, scored) ==
    [scored EXCEPT !["calculate_nasss_scores"] = InputAfter(scorer, @),
                   !["calculate_reaim_scores"] = InputAfter(scorer, @)]

RunGenerateImplementationRecommendations ==
    \E r \in Runs :
        LET run == runs[r]
            scorer == "generate_implementation_recommendations"
        IN  /\ run.pc = scorer
            /\ Calls(r, scorer,
                  AfterCall([run EXCEPT !.scored = AnalysesAfter(scorer, @)],
                            scorer,
                            Return(generate_implementation_recommendations(
                                run.scored["calculate_nasss_scores"],
                                run.scored["calculate_reaim_scores"]))))

RunMakeReadinessDecision ==
    \E r \in Runs :
        LET run == runs[r]
            scorer == "make_readiness_decision"
        IN  /\ run.pc = scorer
            /\ Calls(r, scorer,
                  AfterCall([run EXCEPT !.scored = AnalysesAfter(scorer, @)],
                            scorer,
                            Return(make_readiness_decision(
                                run.scored["calculate_nasss_scores"],
                                run.scored["calculate_reaim_scores"]))))

\* draw_integrated_conclusions is given the report, and the report with the
\* conclusions is what the run returns
RunDrawIntegratedConclusions ==
    \E r \in Runs :
        LET run == runs[r]
            scorer == "draw_integrated_conclusions"
            report == InputAfter(scorer, ReportOf(run.scored))
            conclusions == draw_integrated_conclusions(ReportOf(run.scored))
        IN  /\ run.pc = scorer
            /\ Calls(r, scorer,
                  [AfterCall(run, scorer, Return(conclusions)) EXCEPT
                      !.outcome = Return(SetItem(report, "integrated_conclusions",
                                                 conclusions))])

NextRuns ==
    \/ RunCalculateClinicalMetrics
    \/ RunPerformThematicAnalysis
    \/ RunEvaluationSummary
    \/ RunAnalyzePerformanceMetrics
    \/ RunAnalyzeWhoAlignment
    \/ RunAnalyzeExpertResponses
    \/ RunCalculateNasssScores
    \/ RunCalculateReaimScores
    \/ RunGenerateImplementationRecommendations
    \/ RunMakeReadinessDecision
    \/ RunDrawIntegratedConclusions

SpecRuns == InitRuns /\ [][NextRuns]_vars

-----------------------------------------------------------------------------
(* Claims about the scorers as a whole                                      *)

\* the scorers that have returned in a run
HasScored(run, scorer) == scorer \in DOMAIN run.scored

\* C23: no call of a scorer changes a record that is passed in: after every
\* step of a run the records of the run are what it was given, and the
\* results of the calls made before, which later scorers are given, are what
\* they were; the entries that analyze_performance_metrics,
\* calculate_nasss_scores and calculate_reaim_scores return hold the value
\* that was passed in for them next to what is derived from it.
C23_ScorersLeaveInputsAlone ==
    [][\A r \in Runs :
          LET before == runs[r]
              after == runs'[r]
              all_data == before.given.all_data
          IN  /\ after.records = before.given
              /\ after.given = before.given
              /\ \A scorer \in DOMAIN before.scored :
                    HasScored(after, scorer)
                        /\ after.scored[scorer] = before.scored[scorer]
              /\ HasScored(after, "analyze_performance_metrics") =>
                    LET analysis == after.scored["analyze_performance_metrics"].metrics_analysis
                        metrics_data == Get(all_data, "performance_metrics", EmptyDict)
                    IN  \A metric \in DOMAIN analysis :
                            /\ analysis[metric].actual = metrics_data[metric]
                            /\ analysis[metric].meets_target \in BOOLEAN
              /\ HasScored(after, "calculate_nasss_scores") =>
                    LET entries == after.scored["calculate_nasss_scores"].items
                        nasss_data == Get(all_data, "nasss_data", EmptyDict)
                    IN  \A domain \in DOMAIN entries \ {"overall"} :
                            /\ entries[domain].score = nasss_data[domain]
                            /\ entries[domain].complexity_level
                                  = get_nasss_complexity_level(nasss_data[domain])
              /\ HasScored(after, "calculate_reaim_scores") =>
                    LET entries == after.scored["calculate_reaim_scores"].items
                        reaim_data == Get(all_data, "reaim_data", EmptyDict)
                    IN  \A dimension \in DOMAIN entries \ {"overall"} :
                            /\ entries[dimension].score = reaim_data[dimension]
                            /\ entries[dimension].readiness_level
                                  = get_reaim_readiness_level(reaim_data[dimension])
      ]_vars

\* a run has called the ten scorers and its records are what it was given
C23_Witness ==
    /\ runs # <<>>
    /\ runs["first"].pc = "done"
    /\ Returned(runs["first"].outcome)
    /\ DOMAIN runs["first"].scored = Range(RunSteps)
    /\ runs["first"].records = runs["first"].given
    /\ DOMAIN runs["first"].records.all_data
          = {"performance_metrics", "clinical_results", "expert_responses",
             "nasss_data", "reaim_data"}
    /\ "organization" \in DOMAIN runs["first"].given.all_data.nasss_data
    /\ runs["first"].scored["calculate_nasss_scores"].items["organization"]
          = [score |-> Int2F(4), complexity_level |-> "Complex"]
    /\ runs["first"].scored["analyze_performance_metrics"].metrics_analysis["pwa_score"].actual
          = Int2F(85)

\* what a run produces when it runs alone: the report of
\* generate_comprehensive_report, unless one of the two calls before it raises
Alone(records) ==
    IF ~Returned(calculate_clinical_metrics(records.results_df))
    THEN calculate_clinical_metrics(records.results_df)
    ELSE IF ~Returned(perform_thematic_analysis(records.comments_data))
    THEN perform_thematic_analysis(records.comments_data)
    ELSE generate_comprehensive_report(records.all_data)

\* C24: two runs take their scorer calls in any order, on one analyzer or on
\* two; every result a run has got is the result of the scorer on the
\* records the run was given, and what a finished run has produced is what
\* it produces alone.
C24_RunsDoNotInterfere ==
    \A r \in DOMAIN runs :
        LET run == runs[r]
        IN  /\ run.pc = "done" => run.outcome = Alone(run.given)
            /\ HasScored(run, "calculate_clinical_metrics") =>
                  run.scored["calculate_clinical_metrics"]
                      = calculate_clinical_metrics(run.given.results_df).value
            /\ HasScored(run, "perform_thematic_analysis") =>
                  run.scored["perform_thematic_analysis"]
                      = perform_thematic_analysis(run.given.comments_data).value
            /\ HasScored(run, "evaluation_summary") =>
                  run.scored["evaluation_summary"].app_url = app_url
            /\ HasScored(run, "make_readiness_decision") =>
                  run.scored["make_readiness_decision"]
                      = FrameworkAssessment(run.given.all_data).readiness_decision

\* two runs on one analyzer: the first has returned its report while the
\* second, which has other records, is between two of its calls
C24_Witness ==
    /\ DOMAIN analyzers = {"first"}
    /\ runs["first"].analyzer = runs["second"].analyzer
    /\ runs["first"].given # runs["second"].given
    /\ runs["first"].pc = "done"
    /\ Returned(runs["first"].outcome)
    /\ runs["first"].outcome = generate_comprehensive_report(runs["first"].given.all_data)
    /\ runs["second"].pc = "calculate_reaim_scores"

=============================================================================
